---- MODULE Spec2Model ----
(***************************************************************************)
(* Model of the document-to-vector retrieval pipeline:                     *)
(*   TextProcessor.chunk_text / generate_embeddings  (text_processing.py)  *)
(*   QdrantStorage.store_embeddings                  (qdrant_storage.py)   *)
(* A text is represented by its token count T (the tokenizer is external); *)
(* a chunk's 'tokens'/'text' are the slice tokens[i:i+chunk_size], which   *)
(* is represented by its length (num_tokens) and its window.               *)
(***************************************************************************)
EXTENDS Integers, Sequences, FiniteSets, TLC

VARIABLES
  ctT,        \* chunk_text: len(tokens) of the text argument
  ctSize,     \* chunk_text: chunk_size argument
  ctOverlap,  \* chunk_text: chunk_overlap argument
  ctPc,       \* chunk_text: "called" | "returned" | "raised"
  ctResult,   \* chunk_text: the list returned (<<>> until it returns)
  geTexts,    \* generate_embeddings: texts, after the str -> [str] wrapping
  geBatch,    \* generate_embeddings: batch_size argument
  geI,        \* generate_embeddings: the loop variable i of range(0, len, batch_size)
  geAll,      \* generate_embeddings: all_embeddings
  geLog,      \* the embed_content requests sent so far: [texts, ok]
  gePc,       \* generate_embeddings: "loop" | "returned" | "raised"
  qPoints,    \* the points held by the Qdrant collection
  uuidCount,  \* how many uuid4 values have been drawn so far
  seArgs,     \* store_embeddings: its arguments
  sePoints,   \* store_embeddings: the list points
  seIds,      \* store_embeddings: the list stored_ids
  seI,        \* store_embeddings: the loop variable i of the upsert loop
  sePc,       \* store_embeddings: "called" | "upserting" | "returned" | "raised"
  seHist,     \* the store_embeddings calls that ended, oldest first
  seUpserts,  \* the client.upsert requests of the current call: [request, ok]
  qOpId,      \* the collection's count of acknowledged update operations
  ssArgs,     \* search_similar: the arguments of the call that returned
  ssResult,   \* search_similar: the list returned
  ssPc,       \* search_similar: "idle" | "returned" | "raised"
  ddArg,      \* delete_document: the document_id argument
  ddBefore,   \* delete_document: the collection's points when it was called
  ddResult,   \* delete_document: the value returned
  ddPc,       \* delete_document: "idle" | "returned" | "raised"
  qColl,      \* the index: collection name -> None or Some(collection)
  coName,     \* QdrantStorage(name), per process: the collection_name
  coSeen,     \* ... the collection names get_collections answered
  coPc,       \* ... "idle" | "called" | "listed" | "returned" | "raised"
  coCreates,  \* the create_collection requests the constructors sent
  iqSeen,     \* initialize_qdrant: the collection names it listed
  iqTodo,     \* ... the configured names its loop has yet to visit
  iqErrors,   \* ... the names whose creation error it printed
  iqPc,       \* ... "idle" | "called" | "creating" | "returned"
  fjJobs,     \* the points of the job_embeddings collection
  fjArgs,     \* find_similar_jobs: cv_text and top_k
  fjApiFailed,\* ... whether embed_content raised
  fjApiVec,   \* ... the vector embed_content answered, if it did
  fjEmbedding,\* ... cv_embedding
  fjRequests, \* ... the search requests sent to the index
  fjResult,   \* ... the list returned
  fjPc,       \* ... "idle" | "called" | "embedded" | "returned" | "raised"
  plArgs,     \* process_csv_file: chunk_size, chunk_overlap, batch_size, user_id
  apiDim,     \* ... the dimension of the vectors embed_content answers
  plTodo,     \* ... the rows the loop has yet to visit (their token counts)
  plRow,      \* ... the position of the row being processed, from 1
  plChunks,   \* ... chunks of the row being processed
  plEmb,      \* ... all_embeddings of the generate_embeddings call under way
  plI,        \* ... the index i of that call's loop
  processed_rows,
  total_chunks,
  plReports,  \* ... the "Error procesando la fila" lines printed
  plTrace,    \* ... the stages that ended, per row: [row, stage, ok]
  plResult,   \* ... the dictionary returned
  plPc,       \* ... "idle" | "loop" | "embedding" | "storing" | "returned"
  ccArgs,     \* concurrent store_embeddings calls: caller -> its arguments
  ccPoints,   \* ... caller -> its list points
  ccIds,      \* ... caller -> its list stored_ids
  ccI,        \* ... caller -> its loop variable i of the upsert loop
  ccPc        \* ... caller -> "called" | "upserting" | "returned" | "raised"

ctVars == <<ctT, ctSize, ctOverlap, ctPc, ctResult>>
geVars == <<geTexts, geBatch, geI, geAll, geLog, gePc>>
seVars ==
  <<qPoints, uuidCount, seArgs, sePoints, seIds, seI, sePc, seHist, seUpserts,
    qOpId>>
ssVars == <<ssArgs, ssResult, ssPc>>
ddVars == <<ddArg, ddBefore, ddResult, ddPc>>
\* The variables of the operations other than chunk_text, generate_embeddings
\* and store_embeddings.
qyVars == <<ssVars, ddVars>>
coVars == <<qColl, coName, coSeen, coPc, coCreates, iqSeen, iqTodo, iqErrors, iqPc>>
fjVars == <<fjJobs, fjArgs, fjApiFailed, fjApiVec, fjEmbedding, fjRequests,
           fjResult, fjPc>>
plVars == <<plArgs, apiDim, plTodo, plRow, plChunks, plEmb, plI, processed_rows,
           total_chunks, plReports, plTrace, plResult, plPc>>
ccVars == <<ccArgs, ccPoints, ccIds, ccI, ccPc>>
ixVars == <<qyVars, coVars, fjVars, plVars, ccVars>>
vars == <<ctVars, geVars, seVars, ixVars>>

(***************************************************************************)
(* Bounds of the model.                                                    *)
(***************************************************************************)
MaxTokens == 9        \* token counts 0..MaxTokens for the small-parameter grid
MaxChunkSize == 4     \* chunk_size and chunk_overlap range up to this
MaxNeg == 2           \* ... and down to -MaxNeg
MaxDocTokens == 2350  \* token counts for the default parameters (800, 100)
MaxTexts == 4         \* generate_embeddings: up to this many texts
NumTexts == 3         \* ... drawn from the texts 1..NumTexts
MaxBatch == 3         \* ... in batches of 0..MaxBatch
MaxChunks == 3        \* store_embeddings: up to this many chunks in one call
MaxStoreBatch == 2    \* ... written in batches of 1..MaxStoreBatch
MaxCalls == 2         \* StoreSeqSpec: store_embeddings calls in a row
MaxSeqChunks == 2     \* StoreSeqSpec: up to this many chunks in each call
MaxLimit == 2         \* search_similar: limit ranges over 1..MaxLimit
MaxOps == 3           \* QuerySpec: deletes are made while fewer updates than this
NumProcs == 2         \* CtorSpec: processes constructing a QdrantStorage
MaxStored == 1        \* CtorSpec: an existing collection holds 0..MaxStored points
MaxTopK == 2          \* find_similar_jobs: top_k ranges over 1..MaxTopK
MaxRows == 2          \* process_csv_file: up to this many rows in the file
MaxEmbedBatch == 2    \* ... embedding batch_size ranges over 0..MaxEmbedBatch
DegradeChunks == 10   \* ... and one document of this many chunks
RoundTripChunks == 3  \* RoundTripSpec: the chunks of the document stored
MaxConcChunks == 2    \* ConcSpec: up to this many chunks in each call

(***************************************************************************)
(* Program constants.                                                      *)
(***************************************************************************)
DefaultChunkSize == 800
DefaultChunkOverlap == 100
ExpectedDim == 768        \* expected_dim, the dimension of text-embedding-004
JobScoreThreshold == 50
StoreDefaultBatch == 32   \* store_embeddings(batch_size=32)
DefaultEmbedBatch == 32   \* process_csv_file(batch_size=32)
CollectionDim == 1536     \* VectorParams(size=1536) of both collections

\* ceil(a / b) for a >= 0, b > 0.
CeilDiv(a, b) == (a + b - 1) \div b

Min(a, b) == IF a <= b THEN a ELSE b
Max(a, b) == IF a >= b THEN a ELSE b

(***************************************************************************)
(* Python semantics used by chunk_text.                                    *)
(***************************************************************************)
\* A slice index normalised against a sequence of length n: a negative index
\* counts from the end, and the result is clamped to 0..n.
PyIndex(n, k) == IF k < 0 THEN Max(n + k, 0) ELSE Min(k, n)

\* len(seq[a:b]) for a sequence of length n.
PySliceLen(n, a, b) == Max(PyIndex(n, b) - PyIndex(n, a), 0)

(***************************************************************************)
(* TextProcessor.chunk_text                                                *)
(***************************************************************************)
\* The step of range(0, len(tokens), chunk_size - chunk_overlap).
ChunkStep_NoOverlap(chunk_size, chunk_overlap) == chunk_size
ChunkStep_OffByOne(chunk_size, chunk_overlap) == chunk_size - chunk_overlap + 1
ChunkStep(chunk_size, chunk_overlap) == chunk_size - chunk_overlap

\* The loop's exit test: if i + chunk_size >= len(tokens): break
ChunkBreak_Strict(i, chunk_size, T) == i + chunk_size > T
ChunkBreak(i, chunk_size, T) == i + chunk_size >= T

\* The dictionary appended for the window starting at token i.
MakeChunk(T, chunk_size, i) ==
  [ num_tokens  |-> PySliceLen(T, i, i + chunk_size),
    start_token |-> i,
    end_token   |-> Min(i + chunk_size, T) ]

\* The for loop over range(0, T, step) for step > 0, from index i on.
RECURSIVE ChunkLoop(_, _, _, _, _)
ChunkLoop(T, chunk_size, step, i, chunks) ==
  IF i >= T THEN chunks
  ELSE LET appended == Append(chunks, MakeChunk(T, chunk_size, i))
       IN  IF ChunkBreak(i, chunk_size, T) THEN appended
           ELSE ChunkLoop(T, chunk_size, step, i + step, appended)

\* chunk_text as a function of the token count: range() raises ValueError for
\* a zero step and is empty for a negative one; nothing else is validated.
chunk_text(T, chunk_size, chunk_overlap) ==
  LET step == ChunkStep(chunk_size, chunk_overlap)
  IN  IF step = 0 THEN [err |-> "ValueError", chunks |-> <<>>]
      ELSE IF step < 0 THEN [err |-> "none", chunks |-> <<>>]
      ELSE [err |-> "none", chunks |-> ChunkLoop(T, chunk_size, step, 0, <<>>)]

\* The calls explored: a grid of small parameters, valid and invalid, and the
\* defaults of process_csv_file over documents of up to MaxDocTokens tokens.
ChunkInputs ==
  { <<t, s, o>> : t \in 0..MaxTokens,
                  s \in (0 - MaxNeg)..MaxChunkSize,
                  o \in (0 - MaxNeg)..MaxChunkSize }
  \cup { <<t, DefaultChunkSize, DefaultChunkOverlap>> : t \in 0..MaxDocTokens }

ChunkStart ==
  /\ \E inp \in ChunkInputs :
       /\ ctT = inp[1]
       /\ ctSize = inp[2]
       /\ ctOverlap = inp[3]
  /\ ctPc = "called"
  /\ ctResult = <<>>

ChunkTextRun ==
  /\ ctPc = "called"
  /\ LET r == chunk_text(ctT, ctSize, ctOverlap)
     IN  /\ ctPc' = IF r.err = "none" THEN "returned" ELSE "raised"
         /\ ctResult' = r.chunks
  /\ UNCHANGED <<ctT, ctSize, ctOverlap>>
  /\ UNCHANGED <<geVars, seVars, ixVars>>

\* chunk_text is not in use.
ChunkIdle ==
  /\ ctT = 0 /\ ctSize = 1 /\ ctOverlap = 0
  /\ ctPc = "returned" /\ ctResult = <<>>

(***************************************************************************)
(* TextProcessor.generate_embeddings                                       *)
(***************************************************************************)
\* A vector is represented by its dimension and by the text it embeds
\* (of = 0: the all-zero vector np.zeros(dim)).
Vec(dim, of) == [dim |-> dim, of |-> of]
ZeroVec(dim) == Vec(dim, 0)

\* The vector embed_content answers for one text.
EmbedOf(text) == Vec(ExpectedDim, text)

\* if isinstance(texts, str): texts = [texts]
WrapTexts(arg) == IF arg.kind = "str" THEN <<arg.val>> ELSE arg.val

\* batch = texts[i:i + batch_size]   (i is 0-based, i >= 0, batch_size > 0)
BatchOf_Inclusive(texts, i, batch_size) ==
  SubSeq(texts, i + 1, Min(i + batch_size + 1, Len(texts)))
BatchOf(texts, i, batch_size) ==
  SubSeq(texts, i + 1, Min(i + batch_size, Len(texts)))

\* batch_embeddings: one vector per text of the batch, in the batch's order.
BatchEmbeddings_Reversed(batch) ==
  [k \in 1..Len(batch) |-> EmbedOf(batch[Len(batch) + 1 - k])]
BatchEmbeddings(batch) == [k \in 1..Len(batch) |-> EmbedOf(batch[k])]

\* [np.zeros(expected_dim)] * len(batch)
ZeroPlaceholders_One(batch) == <<ZeroVec(ExpectedDim)>>
ZeroPlaceholders(batch) == [k \in 1..Len(batch) |-> ZeroVec(ExpectedDim)]

\* The arguments explored: a single string, or a list of up to MaxTexts texts.
TextLists == UNION { [1..n -> 1..NumTexts] : n \in 0..MaxTexts }
EmbedArgs ==
  { [kind |-> "str", val |-> t] : t \in 1..NumTexts }
  \cup { [kind |-> "list", val |-> l] : l \in TextLists }

EmbedStart ==
  /\ \E arg \in EmbedArgs : geTexts = WrapTexts(arg)
  /\ geBatch \in 0..MaxBatch
  /\ geI = 0
  /\ geAll = <<>>
  /\ geLog = <<>>
  /\ gePc = "loop"

\* generate_embeddings is not in use.
EmbedIdle ==
  /\ geTexts = <<>> /\ geBatch = 1 /\ geI = 0
  /\ geAll = <<>> /\ geLog = <<>> /\ gePc = "returned"

\* The for loop has a next index.
GenLoopActive == gePc = "loop" /\ geBatch > 0 /\ geI < Len(geTexts)

\* One iteration whose embed_content call answers.
GenBatchOk ==
  /\ GenLoopActive
  /\ LET batch == BatchOf(geTexts, geI, geBatch)
     IN  /\ geAll' = geAll \o BatchEmbeddings(batch)
         /\ geLog' = Append(geLog, [texts |-> batch, ok |-> TRUE])
  /\ geI' = geI + geBatch
  /\ UNCHANGED <<geTexts, geBatch, gePc>>
  /\ UNCHANGED <<ctVars, seVars, ixVars>>

\* One iteration whose embed_content call (or the reading of its answer)
\* raises: the except branch extends all_embeddings by the placeholders.
GenBatchFail ==
  /\ GenLoopActive
  /\ LET batch == BatchOf(geTexts, geI, geBatch)
     IN  /\ geAll' = geAll \o ZeroPlaceholders(batch)
         /\ geLog' = Append(geLog, [texts |-> batch, ok |-> FALSE])
  /\ geI' = geI + geBatch
  /\ UNCHANGED <<geTexts, geBatch, gePc>>
  /\ UNCHANGED <<ctVars, seVars, ixVars>>

\* The range is exhausted: return np.array(all_embeddings).
GenReturn ==
  /\ gePc = "loop" /\ geBatch > 0 /\ geI >= Len(geTexts)
  /\ gePc' = "returned"
  /\ UNCHANGED <<geTexts, geBatch, geI, geAll, geLog>>
  /\ UNCHANGED <<ctVars, seVars, ixVars>>

\* range(0, len(texts), 0) raises ValueError before any request is sent.
GenRangeError ==
  /\ gePc = "loop" /\ geBatch = 0
  /\ gePc' = "raised"
  /\ UNCHANGED <<geTexts, geBatch, geI, geAll, geLog>>
  /\ UNCHANGED <<ctVars, seVars, ixVars>>

(***************************************************************************)
(* QdrantStorage.store_embeddings                                          *)
(* Payload values are strings (numbers in their decimal form), so that a   *)
(* caller's metadata can replace any of them.  An optional argument is <<>>*)
(* for None and <<v>> for the value v.                                     *)
(***************************************************************************)
None == <<>>
Some(v) == <<v>>

\* Python truthiness of an optional dict and of an optional string: None, {}
\* and "" are false.
TruthyDict(opt) == Len(opt) = 1 /\ DOMAIN opt[1] # {}
TruthyStr(opt) == Len(opt) = 1 /\ opt[1] # ""

\* dict.get(key, default)
DictGet(d, key, default) == IF key \in DOMAIN d THEN d[key] ELSE default

\* a.update(b), and a[key] = value
DictUpdate(a, b) ==
  [k \in DOMAIN a \cup DOMAIN b |-> IF k \in DOMAIN b THEN b[k] ELSE a[k]]
DictSet(a, key, value) ==
  [k \in DOMAIN a \cup {key} |-> IF k = key THEN value ELSE a[k]]

\* datetime.utcnow().isoformat(): the time of the call.
Now == "now"

\* str(uuid.uuid4()): a value not drawn before, given how many were drawn.
uuid4(drawn) == drawn + 1

\* The payload of the point for chunk i (0-based) of the call.
MakePayload_MetadataLast(args, chunk, i) ==
  LET fixed == [ document_id |-> args.document_id,
                 text        |-> DictGet(chunk, "text", ""),
                 chunk_index |-> ToString(i),
                 num_tokens  |-> ToString(DictGet(chunk, "num_tokens", 0)),
                 created_at  |-> Now ]
      withUser == IF TruthyStr(args.user_id)
                  THEN DictSet(fixed, "user_id", args.user_id[1]) ELSE fixed
  IN  IF TruthyDict(args.metadata)
      THEN DictUpdate(withUser, args.metadata[1]) ELSE withUser
MakePayload(args, chunk, i) ==
  LET fixed == [ document_id |-> args.document_id,
                 text        |-> DictGet(chunk, "text", ""),
                 chunk_index |-> ToString(i),
                 num_tokens  |-> ToString(DictGet(chunk, "num_tokens", 0)),
                 created_at  |-> Now ]
      merged == IF TruthyDict(args.metadata)
                THEN DictUpdate(fixed, args.metadata[1]) ELSE fixed
  IN  IF TruthyStr(args.user_id)
      THEN DictSet(merged, "user_id", args.user_id[1]) ELSE merged

\* One iteration of the loop over enumerate(chunks); acc holds points,
\* stored_ids and the number of uuid4 values drawn.
BuildStep_IdForSkipped(acc, args, chunk, i) ==
  LET id == uuid4(acc.drawn)
  IN  IF "embedding" \notin DOMAIN chunk
      THEN [acc EXCEPT !.ids = Append(@, id), !.drawn = @ + 1]
      ELSE [ points |-> Append(acc.points,
                               [ id      |-> id,
                                 vector  |-> chunk.embedding,
                                 payload |-> MakePayload(args, chunk, i) ]),
             ids    |-> Append(acc.ids, id),
             drawn  |-> acc.drawn + 1 ]
BuildStep(acc, args, chunk, i) ==
  IF "embedding" \notin DOMAIN chunk THEN acc
  ELSE LET id == uuid4(acc.drawn)
       IN  [ points |-> Append(acc.points,
                               [ id      |-> id,
                                 vector  |-> chunk.embedding,
                                 payload |-> MakePayload(args, chunk, i) ]),
             ids    |-> Append(acc.ids, id),
             drawn  |-> acc.drawn + 1 ]

\* The loop over enumerate(chunks) from chunk i (0-based) on.
RECURSIVE BuildLoop(_, _, _)
BuildLoop(acc, args, i) ==
  IF i >= Len(args.chunks) THEN acc
  ELSE BuildLoop(BuildStep(acc, args, args.chunks[i + 1], i), args, i + 1)

\* client.upsert of one point and of a batch: a point replaces the stored
\* point of the same id, if any.
UpsertPoint(store, p) == { q \in store : q.id # p.id } \cup {p}
RECURSIVE UpsertBatch(_, _)
UpsertBatch(store, batch) ==
  IF batch = <<>> THEN store
  ELSE UpsertBatch(UpsertPoint(store, Head(batch)), Tail(batch))

\* The collection takes a batch only if every vector has its dimension.
QdrantAccepts_Any(batch) == TRUE
QdrantAccepts(batch) ==
  \A k \in 1..Len(batch) : batch[k].vector.dim = CollectionDim

\* The chunks a caller may pass.
ChunkA      == [text |-> "t1", num_tokens |-> 3, embedding |-> Vec(CollectionDim, 1)]
ChunkB      == [text |-> "t2", num_tokens |-> 5, embedding |-> Vec(CollectionDim, 2)]
ChunkBare   == [embedding |-> Vec(CollectionDim, 3)]
ChunkNoVec  == [text |-> "t3", num_tokens |-> 2]
ChunkSmall  == [text |-> "t4", num_tokens |-> 4, embedding |-> Vec(ExpectedDim, 4)]
ChunkKinds  == {ChunkA, ChunkB, ChunkBare, ChunkNoVec, ChunkSmall}

DocIds == {"d1", "d2"}

\* The metadata a caller may pass: None, {}, the keys process_csv_file adds,
\* and keys that name the fixed fields or user_id.
MetaCsv      == [source |-> "cv.csv", row_index |-> "0", Category |-> "HR"]
MetaIdentity == [document_id |-> "dX", text |-> "tX", chunk_index |-> "99"]
MetaCounts   == [num_tokens |-> "77", created_at |-> "then"]
MetaUser     == [user_id |-> "uM"]
Metadatas ==
  {None, Some(<<>>), Some(MetaCsv), Some(MetaIdentity), Some(MetaCounts),
   Some(MetaUser)}

UserIds == {None, Some(""), Some("u1")}

StoreInputs ==
  [ document_id : DocIds,
    chunks      : UNION { [1..n -> ChunkKinds] : n \in 0..MaxChunks },
    metadata    : Metadatas,
    user_id     : UserIds,
    batch_size  : 1..MaxStoreBatch \cup {StoreDefaultBatch} ]

\* The calls explored when several calls follow one another.
SeqInputs ==
  [ document_id : DocIds,
    chunks      : UNION { [1..n -> {ChunkA, ChunkNoVec}] : n \in 0..MaxSeqChunks },
    metadata    : {None, Some(MetaIdentity)},
    user_id     : {None},
    batch_size  : {1} ]

\* A first call on an empty collection.
StoreStart(inputs) ==
  /\ seArgs \in inputs
  /\ qPoints = {}
  /\ uuidCount = 0
  /\ sePoints = <<>>
  /\ seIds = <<>>
  /\ seI = 0
  /\ sePc = "called"
  /\ seHist = <<>>
  /\ seUpserts = <<>>
  /\ qOpId = 0

\* store_embeddings is not in use.
StoreIdle ==
  /\ seArgs = [document_id |-> "d1", chunks |-> <<>>, metadata |-> None,
               user_id |-> None, batch_size |-> 1]
  /\ qPoints = {} /\ uuidCount = 0 /\ sePoints = <<>> /\ seIds = <<>>
  /\ seI = 0 /\ sePc = "returned" /\ seHist = <<>> /\ seUpserts = <<>>
  /\ qOpId = 0

\* The number of chunks of a list that have an embedding.
RECURSIVE NumEmbedded(_)
NumEmbedded(chunks) ==
  IF chunks = <<>> THEN 0
  ELSE (IF "embedding" \in DOMAIN Head(chunks) THEN 1 ELSE 0)
       + NumEmbedded(Tail(chunks))

\* What seHist keeps of a call that ended.
Ended(ok, ids) ==
  [ document_id |-> seArgs.document_id,
    metadata    |-> seArgs.metadata,
    n           |-> NumEmbedded(seArgs.chunks),
    ids         |-> ids,
    ok          |-> ok ]

\* From the call to the first upsert: "if not chunks: return []", else the
\* loop that builds points and stored_ids.
StoreBuild ==
  /\ sePc = "called"
  /\ IF seArgs.chunks = <<>>
     THEN /\ sePc' = "returned"
          /\ seIds' = <<>>
          /\ seHist' = Append(seHist, Ended(TRUE, <<>>))
          /\ UNCHANGED <<sePoints, uuidCount>>
     ELSE LET built == BuildLoop([points |-> <<>>, ids |-> <<>>,
                                  drawn |-> uuidCount], seArgs, 0)
          IN  /\ sePoints' = built.points
              /\ seIds' = built.ids
              /\ uuidCount' = built.drawn
              /\ sePc' = "upserting"
              /\ UNCHANGED seHist
  /\ seI' = 0
  /\ UNCHANGED <<qPoints, seArgs, seUpserts, qOpId>>
  /\ UNCHANGED <<ctVars, geVars, ixVars>>

\* batch = points[i:i + batch_size]
BatchAt(points, i, batch_size) ==
  SubSeq(points, i + 1, Min(i + batch_size, Len(points)))
StoreBatch_WholeList == sePoints
StoreBatch == BatchAt(sePoints, seI, seArgs.batch_size)

\* The arguments of self.client.upsert.
UpsertRequest(batch) == [points |-> batch, wait |-> TRUE]

\* One upsert(wait=True) that the collection acknowledges.
StoreUpsertOk ==
  /\ sePc = "upserting" /\ seI < Len(sePoints)
  /\ QdrantAccepts(StoreBatch)
  /\ qPoints' = UpsertBatch(qPoints, StoreBatch)
  /\ qOpId' = qOpId + 1
  /\ seUpserts' = Append(seUpserts, [request |-> UpsertRequest(StoreBatch), ok |-> TRUE])
  /\ seI' = seI + seArgs.batch_size
  /\ UNCHANGED <<uuidCount, seArgs, sePoints, seIds, sePc, seHist>>
  /\ UNCHANGED <<ctVars, geVars, ixVars>>

\* One upsert that raises (the batch is refused, or the index is not
\* reachable): the exception leaves store_embeddings.
StoreUpsertFail_SkipsBatch ==
  /\ sePc = "upserting" /\ seI < Len(sePoints)
  /\ seUpserts' = Append(seUpserts, [request |-> UpsertRequest(StoreBatch), ok |-> FALSE])
  /\ seI' = seI + seArgs.batch_size
  /\ UNCHANGED <<qPoints, uuidCount, seArgs, sePoints, seIds, sePc, seHist, qOpId>>
  /\ UNCHANGED <<ctVars, geVars, ixVars>>
StoreUpsertFail ==
  /\ sePc = "upserting" /\ seI < Len(sePoints)
  /\ sePc' = "raised"
  /\ seHist' = Append(seHist, Ended(FALSE, <<>>))
  /\ seUpserts' = Append(seUpserts, [request |-> UpsertRequest(StoreBatch), ok |-> FALSE])
  /\ UNCHANGED <<qPoints, uuidCount, seArgs, sePoints, seIds, seI, qOpId>>
  /\ UNCHANGED <<ctVars, geVars, ixVars>>

\* The upsert loop is over: return stored_ids.
StoreReturn ==
  /\ sePc = "upserting" /\ seI >= Len(sePoints)
  /\ sePc' = "returned"
  /\ seHist' = Append(seHist, Ended(TRUE, seIds))
  /\ UNCHANGED <<qPoints, uuidCount, seArgs, sePoints, seIds, seI, seUpserts, qOpId>>
  /\ UNCHANGED <<ctVars, geVars, ixVars>>

\* The caller calls store_embeddings again on the same collection.
StoreCallAgain(args) ==
  /\ sePc \in {"returned", "raised"}
  /\ Len(seHist) < MaxCalls
  /\ seArgs' = args
  /\ sePoints' = <<>>
  /\ seIds' = <<>>
  /\ seI' = 0
  /\ sePc' = "called"
  /\ seUpserts' = <<>>
  /\ UNCHANGED <<qPoints, uuidCount, seHist, qOpId>>
  /\ UNCHANGED <<ctVars, geVars, ixVars>>

(***************************************************************************)
(* QdrantStorage.search_similar and delete_document.  A similarity score   *)
(* is a whole number of hundredths (100 for 1.0).                          *)
(***************************************************************************)
\* The cosine similarity of two vectors of the same dimension: 1.0 for the
\* vectors of the same text, less for those of different texts, 0 with the
\* all-zero vector.
Score(q, v) ==
  IF q.of = 0 \/ v.of = 0 THEN 0
  ELSE IF q.of = v.of THEN 100
  ELSE IF q.of > v.of THEN 100 - 30 * (q.of - v.of)
  ELSE 100 - 30 * (v.of - q.of)

\* The query_filter built from filter_conditions: one must-condition per
\* item, or no filter for None and for {}.
SearchFilter_IgnoreUser(filter_conditions) ==
  IF TruthyDict(filter_conditions)
  THEN Some([must |-> { <<k, filter_conditions[1][k]>> :
                          k \in DOMAIN filter_conditions[1] \ {"user_id"} }])
  ELSE None
SearchFilter(filter_conditions) ==
  IF TruthyDict(filter_conditions)
  THEN Some([must |-> { <<k, filter_conditions[1][k]>> :
                          k \in DOMAIN filter_conditions[1] }])
  ELSE None

\* The arguments of self.client.search.
SearchRequest_NoThreshold(args) ==
  [ query_vector    |-> args.query_embedding,
    query_filter    |-> SearchFilter(args.filter_conditions),
    limit           |-> args.limit,
    score_threshold |-> None ]
SearchRequest(args) ==
  [ query_vector    |-> args.query_embedding,
    query_filter    |-> SearchFilter(args.filter_conditions),
    limit           |-> args.limit,
    score_threshold |-> args.score_threshold ]

\* The index's side of a search: a point passes a filter when its payload
\* has every must-condition's key with that value.
PassesFilter(p, query_filter) ==
  query_filter = None \/
    \A c \in query_filter[1].must :
      c[1] \in DOMAIN p.payload /\ p.payload[c[1]] = c[2]

\* The points a request may return.
Candidates(points, req) ==
  { p \in points :
      /\ PassesFilter(p, req.query_filter)
      /\ req.score_threshold = None
           \/ Score(req.query_vector, p.vector) >= req.score_threshold[1] }

\* The answers the index may give: the best min(limit, candidates) points,
\* best first; the order among equal scores is the index's choice.
SearchAnswers(points, req) ==
  LET cands == Candidates(points, req)
      n     == Min(req.limit, Cardinality(cands))
      sc(p) == Score(req.query_vector, p.vector)
  IN  { hits \in [1..n -> cands] :
          /\ \A j, k \in 1..n : j < k =>
               hits[j] # hits[k] /\ sc(hits[j]) >= sc(hits[k])
          /\ \A p \in cands :
               (\A k \in 1..n : hits[k] # p) =>
                 \A k \in 1..n : sc(hits[k]) >= sc(p) }

\* The list search_similar returns for the index's hits.
FormatHits_NoPayload(hits, req) ==
  [ k \in 1..Len(hits) |->
      [ id      |-> hits[k].id,
        score   |-> Score(req.query_vector, hits[k].vector),
        payload |-> <<>>,
        vector  |-> None ] ]
FormatHits(hits, req) ==
  [ k \in 1..Len(hits) |->
      [ id      |-> hits[k].id,
        score   |-> Score(req.query_vector, hits[k].vector),
        payload |-> hits[k].payload,
        vector  |-> None ] ]

\* The points a delete by filter document_id == d removes.
DeleteSelected_All(points, document_id) == points
DeleteSelected(points, document_id) ==
  { p \in points : PassesFilter(p, Some([must |-> {<<"document_id", document_id>>}])) }

\* return result.operation_id if hasattr(result, 'operation_id') else 0
DeleteReturnValue(operation_id, removed) == operation_id

\* The searches and the stores explored by QuerySpec.
FilterChoices ==
  { None, Some(<<>>),
    Some([user_id |-> "u1"]),
    Some([user_id |-> "u1", document_id |-> "d2"]) }
SearchInputs ==
  [ query_embedding   : {Vec(CollectionDim, 1), Vec(ExpectedDim, 1)},
    limit             : 1..MaxLimit,
    filter_conditions : FilterChoices,
    score_threshold   : {None, Some(60)} ]
QueryCall(d, chunks, metadata, u) ==
  [ document_id |-> d, chunks |-> chunks, metadata |-> metadata,
    user_id |-> Some(u), batch_size |-> Len(chunks) ]
QueryStoreInputs ==
  { QueryCall("d1", <<ChunkA, ChunkB>>, None, "u1"),
    QueryCall("d2", <<ChunkB, ChunkBare>>, None, "u2"),
    QueryCall("d2", <<ChunkA>>, Some(MetaIdentity), "u1") }

\* The stores and the searches of a round trip: one document of
\* RoundTripChunks embedded chunks, two of which may carry the same vector
\* (the same text twice) or the all-zero vector, then searches with a chunk's
\* vector and score_threshold 0.99.
ChunkZero == [text |-> "t0", num_tokens |-> 1, embedding |-> ZeroVec(CollectionDim)]
RoundTripInputs ==
  [ document_id : {"d1"},
    chunks      : [1..RoundTripChunks -> {ChunkA, ChunkB, ChunkZero}],
    metadata    : {None, Some(MetaIdentity)},
    user_id     : {None},
    batch_size  : 1..MaxStoreBatch ]
RoundTripSearches ==
  [ query_embedding   : {ChunkA.embedding, ChunkB.embedding, ChunkZero.embedding},
    limit             : 1..MaxLimit,
    filter_conditions : {None},
    score_threshold   : {Some(99)} ]

NoSearchArgs ==
  [ query_embedding |-> Vec(CollectionDim, 1), limit |-> 1,
    filter_conditions |-> None, score_threshold |-> None ]
SearchIdle == ssArgs = NoSearchArgs /\ ssResult = <<>> /\ ssPc = "idle"
DeleteIdle == ddArg = "d1" /\ ddBefore = {} /\ ddResult = 0 /\ ddPc = "idle"

\* No call on the storage object is under way: its user may make the next.
ClientReady == sePc \in {"returned", "raised"}

\* What a new call forgets of the previous search and delete.
ForgetSearch == ssArgs' = NoSearchArgs /\ ssResult' = <<>> /\ ssPc' = "idle"
ForgetDelete == ddArg' = "d1" /\ ddBefore' = {} /\ ddResult' = 0 /\ ddPc' = "idle"

\* store_embeddings is called on a collection that other calls have used.
QueryStoreCall(args) ==
  /\ ClientReady
  /\ Len(seHist) < MaxCalls
  /\ seArgs' = args
  /\ sePoints' = <<>>
  /\ seIds' = <<>>
  /\ seI' = 0
  /\ sePc' = "called"
  /\ ForgetSearch /\ ForgetDelete
  /\ seUpserts' = <<>>
  /\ UNCHANGED <<qPoints, uuidCount, seHist, qOpId>>
  /\ UNCHANGED <<ctVars, geVars, ccVars, coVars, fjVars, plVars>>

\* search_similar whose client.search answers.
SearchSimilarOk(args) ==
  /\ ClientReady
  /\ args.query_embedding.dim = CollectionDim
  /\ LET req == SearchRequest(args)
     IN  \E hits \in SearchAnswers(qPoints, req) :
           ssResult' = FormatHits(hits, req)
  /\ ssArgs' = args
  /\ ssPc' = "returned"
  /\ ForgetDelete
  /\ UNCHANGED <<ctVars, geVars, ccVars, seVars, coVars, fjVars, plVars>>

\* search_similar whose client.search raises (a query vector of another
\* dimension, or the index is not reachable), whatever the arguments.
SearchSimilarFail ==
  /\ ClientReady
  /\ ssArgs' = NoSearchArgs
  /\ ssResult' = <<>>
  /\ ssPc' = "raised"
  /\ ForgetDelete
  /\ UNCHANGED <<ctVars, geVars, ccVars, seVars, coVars, fjVars, plVars>>

\* delete_document whose client.delete (wait=True by default) answers.
DeleteDocumentOk(document_id) ==
  /\ ClientReady
  /\ qOpId < MaxOps
  /\ LET removed == DeleteSelected(qPoints, document_id)
     IN  /\ qPoints' = qPoints \ removed
         /\ ddResult' = DeleteReturnValue(qOpId, Cardinality(removed))
  /\ qOpId' = qOpId + 1
  /\ ddArg' = document_id
  /\ ddBefore' = qPoints
  /\ ddPc' = "returned"
  /\ ForgetSearch
  /\ UNCHANGED <<uuidCount, seArgs, sePoints, seIds, seI, sePc, seHist, seUpserts>>
  /\ UNCHANGED <<ctVars, geVars, ccVars, coVars, fjVars, plVars>>

\* delete_document whose client.delete raises.
DeleteDocumentFail(document_id) ==
  /\ ClientReady
  /\ ddArg' = document_id
  /\ ddBefore' = qPoints
  /\ ddResult' = 0
  /\ ddPc' = "raised"
  /\ ForgetSearch
  /\ UNCHANGED <<ctVars, geVars, ccVars, seVars, coVars, fjVars, plVars>>

(***************************************************************************)
(* QdrantStorage.__init__ / _create_collection and initialize_qdrant.      *)
(* A collection is its vectors_config and the number of points it holds.   *)
(***************************************************************************)
Procs == 1..NumProcs
ConfiguredNames == {"cv_embeddings", "job_embeddings"}
CollNames == ConfiguredNames \cup {"other"}

\* get_collection_configs()[name]["vectors_config"]
VectorsConfig(name) == [size |-> CollectionDim, distance |-> "Cosine"]

\* The collection a create_collection request makes.
NewCollection(config) ==
  [size |-> config.size, distance |-> config.distance, points |-> 0]

\* [collection.name for collection in client.get_collections().collections]
ListedNames(colls) == { n \in DOMAIN colls : colls[n] # None }

\* if self.collection_name not in collection_names
NeedsCreate_Always(name, collection_names) == TRUE
NeedsCreate(name, collection_names) == name \notin collection_names

\* The index as the program can have left it: each configured collection is
\* absent or was created from its configuration, and holds some points.
IndexStates ==
  { colls \in [CollNames -> {None} \cup
                 { Some([NewCollection(VectorsConfig(n)) EXCEPT !.points = k]) :
                     n \in ConfiguredNames, k \in 0..MaxStored }] :
      colls["other"] = None }

CtorIdle ==
  /\ qColl = [n \in CollNames |->
                IF n \in ConfiguredNames
                THEN Some(NewCollection(VectorsConfig(n))) ELSE None]
  /\ coName = [p \in Procs |-> "cv_embeddings"]
  /\ coSeen = [p \in Procs |-> {}]
  /\ coPc = [p \in Procs |-> "idle"]
  /\ coCreates = {}
  /\ iqSeen = {} /\ iqTodo = <<>> /\ iqErrors = <<>> /\ iqPc = "idle"

\* Every process constructs a QdrantStorage; initialize_qdrant may run too.
CtorStart ==
  /\ qColl \in IndexStates
  /\ coName \in [Procs -> CollNames]
  /\ coSeen = [p \in Procs |-> {}]
  /\ coPc = [p \in Procs |-> "called"]
  /\ coCreates = {}
  /\ iqSeen = {} /\ iqTodo = <<>> /\ iqErrors = <<>>
  /\ iqPc \in {"idle", "called"}

\* collections = self.client.get_collections().collections
CtorList(p) ==
  /\ coPc[p] = "called"
  /\ coSeen' = [coSeen EXCEPT ![p] = ListedNames(qColl)]
  /\ coPc' = [coPc EXCEPT ![p] = "listed"]
  /\ UNCHANGED <<qColl, coName, coCreates, iqSeen, iqTodo, iqErrors, iqPc>>
  /\ UNCHANGED <<ctVars, geVars, ccVars, seVars, qyVars, fjVars, plVars>>

\* The collection was listed: the constructor returns.
CtorSkip(p) ==
  /\ coPc[p] = "listed"
  /\ ~NeedsCreate(coName[p], coSeen[p])
  /\ coPc' = [coPc EXCEPT ![p] = "returned"]
  /\ UNCHANGED <<qColl, coName, coSeen, coCreates, iqSeen, iqTodo, iqErrors, iqPc>>
  /\ UNCHANGED <<ctVars, geVars, ccVars, seVars, qyVars, fjVars, plVars>>

\* _create_collection: no configuration for the name, ValueError.
CtorUnknown(p) ==
  /\ coPc[p] = "listed"
  /\ NeedsCreate(coName[p], coSeen[p])
  /\ coName[p] \notin ConfiguredNames
  /\ coPc' = [coPc EXCEPT ![p] = "raised"]
  /\ UNCHANGED <<qColl, coName, coSeen, coCreates, iqSeen, iqTodo, iqErrors, iqPc>>
  /\ UNCHANGED <<ctVars, geVars, ccVars, seVars, qyVars, fjVars, plVars>>

\* _create_collection: create_collection is sent; the index creates the
\* collection if it has none of that name, and refuses otherwise, which
\* raises in the constructor.
CtorCreate(p) ==
  /\ coPc[p] = "listed"
  /\ NeedsCreate(coName[p], coSeen[p])
  /\ coName[p] \in ConfiguredNames
  /\ coCreates' = coCreates \cup
       {[by |-> p, name |-> coName[p], config |-> VectorsConfig(coName[p])]}
  /\ IF qColl[coName[p]] = None
     THEN /\ qColl' = [qColl EXCEPT
                         ![coName[p]] = Some(NewCollection(VectorsConfig(coName[p])))]
          /\ coPc' = [coPc EXCEPT ![p] = "returned"]
     ELSE /\ qColl' = qColl
          /\ coPc' = [coPc EXCEPT ![p] = "raised"]
  /\ UNCHANGED <<coName, coSeen, iqSeen, iqTodo, iqErrors, iqPc>>
  /\ UNCHANGED <<ctVars, geVars, ccVars, seVars, qyVars, fjVars, plVars>>

\* initialize_qdrant: existing_collection_names, then the loop over the
\* configured names in the order of the configuration.
InitScriptList ==
  /\ iqPc = "called"
  /\ iqSeen' = ListedNames(qColl)
  /\ iqTodo' = <<"cv_embeddings", "job_embeddings">>
  /\ iqPc' = "creating"
  /\ UNCHANGED <<qColl, coName, coSeen, coPc, coCreates, iqErrors>>
  /\ UNCHANGED <<ctVars, geVars, ccVars, seVars, qyVars, fjVars, plVars>>

\* One iteration: create the collection if it was not listed; an error of
\* create_collection is printed and the loop goes on.
InitScriptStep ==
  /\ iqPc = "creating" /\ iqTodo # <<>>
  /\ LET name == Head(iqTodo)
     IN  IF name \in iqSeen
         THEN UNCHANGED <<qColl, iqErrors>>
         ELSE IF qColl[name] = None
         THEN /\ qColl' = [qColl EXCEPT
                             ![name] = Some(NewCollection(VectorsConfig(name)))]
              /\ UNCHANGED iqErrors
         ELSE /\ iqErrors' = Append(iqErrors, name)
              /\ UNCHANGED qColl
  /\ iqTodo' = Tail(iqTodo)
  /\ UNCHANGED <<coName, coSeen, coPc, coCreates, iqSeen, iqPc>>
  /\ UNCHANGED <<ctVars, geVars, ccVars, seVars, qyVars, fjVars, plVars>>

InitScriptDone ==
  /\ iqPc = "creating" /\ iqTodo = <<>>
  /\ iqPc' = "returned"
  /\ UNCHANGED <<qColl, coName, coSeen, coPc, coCreates, iqSeen, iqTodo, iqErrors>>
  /\ UNCHANGED <<ctVars, geVars, ccVars, seVars, qyVars, fjVars, plVars>>

(***************************************************************************)
(* get_cv_embedding and find_similar_jobs (test_semantic_matching.py)      *)
(***************************************************************************)
\* What genai.embed_content may answer for a text: text_processing.py takes
\* the model's vectors to have ExpectedDim entries, process_job_descriptions.py
\* takes them to have as many as the collections; both are explored.
CvEmbedAnswers(text) == {Vec(ExpectedDim, text), Vec(CollectionDim, text)}

\* get_cv_embedding's value when embed_content raised: return None
CvEmbeddingOnFailure_Zero == Some(ZeroVec(ExpectedDim))
CvEmbeddingOnFailure == None

\* The arguments of client.search in find_similar_jobs; 0.5 is 50 hundredths.
JobSearchRequest(cv_embedding, top_k) ==
  [ query_vector    |-> cv_embedding,
    query_filter    |-> None,
    limit           |-> top_k,
    score_threshold |-> Some(JobScoreThreshold) ]

\* A payload without its text: {k: v for k, v in payload.items() if k != 'text'}
WithoutText(payload) == [k \in DOMAIN payload \ {"text"} |-> payload[k]]

\* The results list of find_similar_jobs (title and description are cuts of
\* the payload's text, kept here as the text itself).
FormatJobs(hits, req) ==
  [ k \in 1..Len(hits) |->
      [ job_id      |-> hits[k].id,
        score       |-> Score(req.query_vector, hits[k].vector),
        description |-> DictGet(hits[k].payload, "text", ""),
        metadata    |-> WithoutText(hits[k].payload) ] ]

\* The job points the collection may hold.
JobPoint(n) ==
  [ id |-> n, vector |-> Vec(CollectionDim, n),
    payload |-> [text |-> "job", job_id |-> ToString(n)] ]
JobCollections == SUBSET { JobPoint(n) : n \in 1..NumTexts }

NoJobArgs == [cv_text |-> 1, top_k |-> 1]
FindJobsIdle ==
  /\ fjJobs = {} /\ fjArgs = NoJobArgs
  /\ fjApiFailed = FALSE /\ fjApiVec = None /\ fjEmbedding = None
  /\ fjRequests = <<>> /\ fjResult = <<>> /\ fjPc = "idle"

FindJobsStart ==
  /\ fjJobs \in JobCollections
  /\ fjArgs \in [cv_text : 1..NumTexts, top_k : 1..MaxTopK]
  /\ fjApiFailed = FALSE /\ fjApiVec = None /\ fjEmbedding = None
  /\ fjRequests = <<>> /\ fjResult = <<>> /\ fjPc = "called"

\* get_cv_embedding: embed_content answers, result['embedding'] is returned.
FjEmbedOk ==
  /\ fjPc = "called"
  /\ \E v \in CvEmbedAnswers(fjArgs.cv_text) :
       /\ fjApiVec' = Some(v)
       /\ fjEmbedding' = Some(v)
  /\ fjPc' = "embedded"
  /\ UNCHANGED <<fjJobs, fjArgs, fjApiFailed, fjRequests, fjResult>>
  /\ UNCHANGED <<ctVars, geVars, ccVars, seVars, qyVars, coVars, plVars>>

\* get_cv_embedding: embed_content raises, the error is logged.
FjEmbedFail ==
  /\ fjPc = "called"
  /\ fjApiFailed' = TRUE
  /\ fjEmbedding' = CvEmbeddingOnFailure
  /\ fjPc' = "embedded"
  /\ UNCHANGED <<fjJobs, fjArgs, fjApiVec, fjRequests, fjResult>>
  /\ UNCHANGED <<ctVars, geVars, ccVars, seVars, qyVars, coVars, plVars>>

\* if not cv_embedding: log and return []
FjReturnEmpty ==
  /\ fjPc = "embedded"
  /\ fjEmbedding = None
  /\ fjResult' = <<>>
  /\ fjPc' = "returned"
  /\ UNCHANGED <<fjJobs, fjArgs, fjApiFailed, fjApiVec, fjEmbedding, fjRequests>>
  /\ UNCHANGED <<ctVars, geVars, ccVars, seVars, qyVars, coVars, plVars>>

\* client.search answers and its hits are formatted.
FjSearchOk ==
  /\ fjPc = "embedded"
  /\ fjEmbedding # None
  /\ fjEmbedding[1].dim = CollectionDim
  /\ LET req == JobSearchRequest(fjEmbedding[1], fjArgs.top_k)
     IN  /\ fjRequests' = Append(fjRequests, req)
         /\ \E hits \in SearchAnswers(fjJobs, req) :
              fjResult' = FormatJobs(hits, req)
  /\ fjPc' = "returned"
  /\ UNCHANGED <<fjJobs, fjArgs, fjApiFailed, fjApiVec, fjEmbedding>>
  /\ UNCHANGED <<ctVars, geVars, ccVars, seVars, qyVars, coVars, plVars>>

\* client.search raises (a vector of another dimension than the collection's,
\* or the index is not reachable); nothing catches it.
FjSearchFail ==
  /\ fjPc = "embedded"
  /\ fjEmbedding # None
  /\ fjRequests' = Append(fjRequests,
                          JobSearchRequest(fjEmbedding[1], fjArgs.top_k))
  /\ fjPc' = "raised"
  /\ UNCHANGED <<fjJobs, fjArgs, fjApiFailed, fjApiVec, fjEmbedding, fjResult>>
  /\ UNCHANGED <<ctVars, geVars, ccVars, seVars, qyVars, coVars, plVars>>

(***************************************************************************)
(* process_csv_file: the loop over the rows of the CSV file.  A row is the *)
(* number of tokens of its text (0: the text is empty after strip()).      *)
(***************************************************************************)
\* batch_embeddings of a batch that embed_content answers with vectors of
\* dimension dim; the text of a chunk is known by the chunk's position.
ApiEmbeddings(batch, dim) == [k \in 1..Len(batch) |-> Vec(dim, batch[k])]

\* chunk_texts = [chunk["text"] for chunk in chunks]
ChunkTexts(chunks) == [k \in 1..Len(chunks) |-> k]

\* np.array(all_embeddings) of vectors of different lengths: an array of
\* objects with older numpy, ValueError with newer ones.
Ragged(embeddings) ==
  \E j, k \in 1..Len(embeddings) : embeddings[j].dim # embeddings[k].dim

\* for i, chunk in enumerate(chunks): chunk["embedding"] = embeddings[i].tolist()
WithEmbeddings(chunks, embeddings) ==
  [ k \in 1..Len(chunks) |->
      [ text        |-> ToString(k),
        num_tokens  |-> chunks[k].num_tokens,
        start_token |-> chunks[k].start_token,
        end_token   |-> chunks[k].end_token,
        embedding   |-> embeddings[k] ] ]

\* doc_id = f"cv_{processed_rows}_{os.urandom(4).hex()}"
DocIdOf(done, hex) == "cv_" \o ToString(done) \o "_" \o hex
RandomHex == {"0a", "f3"}

\* The arguments of storage.store_embeddings; batch_size is left to its
\* default.
RowStoreArgs(done, hex, chunks, user_id) ==
  [ document_id |-> DocIdOf(done, hex),
    chunks      |-> chunks,
    metadata    |-> Some([source |-> "cv.csv", row_index |-> ToString(done),
                          Category |-> "HR"]),
    user_id     |-> user_id,
    batch_size  |-> StoreDefaultBatch ]

\* print(f"Error procesando la fila {processed_rows + 1}: {str(e)}")
RowErrorReport(done, message) == [row |-> done + 1, message |-> message]

\* The calls explored.
RowTokens == {0, 2, 3}
CsvRows == UNION { [1..n -> RowTokens] : n \in 1..MaxRows }
CsvArgs ==
  [ chunking   : {<<2, 0>>, <<2, 2>>, <<1, 2>>},
    batch_size : 0..MaxEmbedBatch,
    user_id    : {None} ]

PipelineIdle ==
  /\ plArgs = [chunking |-> <<2, 0>>, batch_size |-> 1, user_id |-> None]
  /\ apiDim = ExpectedDim
  /\ plTodo = <<>> /\ plRow = 0 /\ plChunks = <<>> /\ plEmb = <<>> /\ plI = 0
  /\ processed_rows = 0 /\ total_chunks = 0
  /\ plReports = <<>> /\ plTrace = <<>> /\ plResult = <<>> /\ plPc = "idle"

\* One document of DegradeChunks chunks, embedded in batches of 2.
DegradeArgs == [chunking |-> <<1, 0>>, batch_size |-> 2, user_id |-> None]
DegradeRows == << DegradeChunks >>

\* One document of more chunks than store_embeddings puts in one upsert,
\* under the default batch sizes.
LongArgs == [chunking |-> <<1, 0>>, batch_size |-> DefaultEmbedBatch, user_id |-> None]
LongRows == << StoreDefaultBatch + 1 >>

\* The file was read and has rows with the text column: the loop starts.
PipelineStart ==
  /\ \/ plArgs \in CsvArgs /\ plTodo \in CsvRows
     \/ plArgs = DegradeArgs /\ plTodo = DegradeRows
     \/ plArgs = LongArgs /\ plTodo = LongRows
  /\ apiDim \in {ExpectedDim, CollectionDim}
  /\ plRow = 0 /\ plChunks = <<>> /\ plEmb = <<>> /\ plI = 0
  /\ processed_rows = 0 /\ total_chunks = 0
  /\ plReports = <<>> /\ plTrace = <<>> /\ plResult = <<>> /\ plPc = "loop"

\* The row's stages that ended are recorded.
Traced(stage, ok) == Append(plTrace, [row |-> plRow + 1, stage |-> stage, ok |-> ok])
TracedHere(stage, ok) == Append(plTrace, [row |-> plRow, stage |-> stage, ok |-> ok])

\* The next row, up to the call of generate_embeddings: an empty text and an
\* empty chunk list are skipped with a warning, an error of chunk_text goes
\* to the except branch.
PlRowChunk ==
  /\ plPc = "loop" /\ plTodo # <<>>
  /\ plRow' = plRow + 1
  /\ plTodo' = Tail(plTodo)
  /\ LET r == chunk_text(Head(plTodo), plArgs.chunking[1], plArgs.chunking[2])
     IN  IF Head(plTodo) = 0
         THEN UNCHANGED <<plChunks, plReports, plTrace, plPc>>
         ELSE IF r.err # "none"
         THEN /\ plReports' = Append(plReports,
                                RowErrorReport(processed_rows, r.err))
              /\ plTrace' = Traced("chunk", FALSE)
              /\ UNCHANGED <<plChunks, plPc>>
         ELSE IF r.chunks = <<>>
         THEN /\ plTrace' = Traced("chunk", TRUE)
              /\ UNCHANGED <<plChunks, plReports, plPc>>
         ELSE /\ plChunks' = r.chunks
              /\ plTrace' = Traced("chunk", TRUE)
              /\ plPc' = "embedding"
              /\ UNCHANGED plReports
  /\ plEmb' = <<>> /\ plI' = 0
  /\ UNCHANGED <<plArgs, apiDim, processed_rows, total_chunks, plResult>>
  /\ UNCHANGED <<ctVars, geVars, ccVars, seVars, qyVars, coVars, fjVars>>

\* generate_embeddings: the loop has a next index.
PlEmbedActive ==
  plPc = "embedding" /\ plArgs.batch_size > 0 /\ plI < Len(plChunks)

\* One batch that embed_content answers.
PlEmbedBatchOk ==
  /\ PlEmbedActive
  /\ plEmb' = plEmb \o ApiEmbeddings(
                BatchOf(ChunkTexts(plChunks), plI, plArgs.batch_size), apiDim)
  /\ plI' = plI + plArgs.batch_size
  /\ UNCHANGED <<plArgs, apiDim, plTodo, plRow, plChunks, processed_rows,
                 total_chunks, plReports, plTrace, plResult, plPc>>
  /\ UNCHANGED <<ctVars, geVars, ccVars, seVars, qyVars, coVars, fjVars>>

\* One batch whose embed_content call raises: placeholders of zeros.
PlEmbedBatchFail ==
  /\ PlEmbedActive
  /\ plEmb' = plEmb \o ZeroPlaceholders(
                BatchOf(ChunkTexts(plChunks), plI, plArgs.batch_size))
  /\ plI' = plI + plArgs.batch_size
  /\ UNCHANGED <<plArgs, apiDim, plTodo, plRow, plChunks, processed_rows,
                 total_chunks, plReports, plTrace, plResult, plPc>>
  /\ UNCHANGED <<ctVars, geVars, ccVars, seVars, qyVars, coVars, fjVars>>

\* generate_embeddings raises: range() with batch_size 0, or np.array of
\* vectors of different lengths; the row ends in the except branch.
PlEmbedRaise ==
  /\ plPc = "embedding"
  /\ \/ plArgs.batch_size = 0
     \/ plArgs.batch_size > 0 /\ plI >= Len(plChunks) /\ Ragged(plEmb)
  /\ plReports' = Append(plReports, RowErrorReport(processed_rows, "ValueError"))
  /\ plTrace' = TracedHere("embed", FALSE)
  /\ plPc' = "loop"
  /\ UNCHANGED <<plArgs, apiDim, plTodo, plRow, plChunks, plEmb, plI,
                 processed_rows, total_chunks, plResult>>
  /\ UNCHANGED <<ctVars, geVars, ccVars, seVars, qyVars, coVars, fjVars>>

\* generate_embeddings returns; every chunk gets its embedding and
\* store_embeddings is called.
PlEmbedDone ==
  /\ plPc = "embedding"
  /\ plArgs.batch_size > 0 /\ plI >= Len(plChunks)
  /\ sePc \in {"returned", "raised"}
  /\ \E hex \in RandomHex :
       seArgs' = RowStoreArgs(processed_rows, hex,
                              WithEmbeddings(plChunks, plEmb), plArgs.user_id)
  /\ sePoints' = <<>> /\ seIds' = <<>> /\ seI' = 0 /\ sePc' = "called"
  /\ plTrace' = TracedHere("embed", TRUE)
  /\ plPc' = "storing"
  /\ seUpserts' = <<>>
  /\ UNCHANGED <<qPoints, uuidCount, seHist, qOpId>>
  /\ UNCHANGED <<plArgs, apiDim, plTodo, plRow, plChunks, plEmb, plI,
                 processed_rows, total_chunks, plReports, plResult>>
  /\ UNCHANGED <<ctVars, geVars, ccVars, qyVars, coVars, fjVars>>

\* store_embeddings returned: the counters are advanced.
PlStoreReturned ==
  /\ plPc = "storing" /\ sePc = "returned"
  /\ total_chunks' = total_chunks + Len(seIds)
  /\ processed_rows' = processed_rows + 1
  /\ plTrace' = TracedHere("store", TRUE)
  /\ plPc' = "loop"
  /\ UNCHANGED <<plArgs, apiDim, plTodo, plRow, plChunks, plEmb, plI,
                 plReports, plResult>>
  /\ UNCHANGED <<ctVars, geVars, ccVars, seVars, qyVars, coVars, fjVars>>

\* store_embeddings raised: the except branch prints the error.
PlStoreRaised ==
  /\ plPc = "storing" /\ sePc = "raised"
  /\ plReports' = Append(plReports,
                         RowErrorReport(processed_rows, "UnexpectedResponse"))
  /\ plTrace' = TracedHere("store", FALSE)
  /\ plPc' = "loop"
  /\ UNCHANGED <<plArgs, apiDim, plTodo, plRow, plChunks, plEmb, plI,
                 processed_rows, total_chunks, plResult>>
  /\ UNCHANGED <<ctVars, geVars, ccVars, seVars, qyVars, coVars, fjVars>>

\* The rows are exhausted: the summary is returned.
PlReturn ==
  /\ plPc = "loop" /\ plTodo = <<>>
  /\ plResult' = <<[success |-> TRUE, processed_rows |-> processed_rows,
                    total_chunks |-> total_chunks]>>
  /\ plPc' = "returned"
  /\ UNCHANGED <<plArgs, apiDim, plTodo, plRow, plChunks, plEmb, plI,
                 processed_rows, total_chunks, plReports, plTrace>>
  /\ UNCHANGED <<ctVars, geVars, ccVars, seVars, qyVars, coVars, fjVars>>

\* The operations other than chunk_text, generate_embeddings and
\* store_embeddings are not in use.
(***************************************************************************)
(* Two callers (two pipelines over independent documents) inside            *)
(* store_embeddings at the same time, on the same collection.              *)
(***************************************************************************)
Callers == {1, 2}
ConcDocId(p) == IF p = 1 THEN "d1" ELSE "d2"
ConcInputs(p) ==
  [ document_id : {ConcDocId(p)},
    chunks      : UNION { [1..n -> {ChunkA, ChunkB}] : n \in 0..MaxConcChunks },
    metadata    : {None, Some(MetaIdentity)},
    user_id     : {None},
    batch_size  : {1} ]

ConcIdle ==
  /\ ccArgs = [p \in Callers |->
                [document_id |-> ConcDocId(p), chunks |-> <<>>,
                 metadata |-> None, user_id |-> None, batch_size |-> 1]]
  /\ ccPoints = [p \in Callers |-> <<>>]
  /\ ccIds = [p \in Callers |-> <<>>]
  /\ ccI = [p \in Callers |-> 0]
  /\ ccPc = [p \in Callers |-> "returned"]

\* Both calls are made on an empty collection.
ConcStart ==
  /\ ccArgs \in [Callers -> UNION { ConcInputs(p) : p \in Callers }]
  /\ \A p \in Callers : ccArgs[p] \in ConcInputs(p)
  /\ ccPoints = [p \in Callers |-> <<>>]
  /\ ccIds = [p \in Callers |-> <<>>]
  /\ ccI = [p \in Callers |-> 0]
  /\ ccPc = [p \in Callers |-> "called"]

\* Caller p, from the call to its first upsert.
ConcBuild(p) ==
  /\ ccPc[p] = "called"
  /\ IF ccArgs[p].chunks = <<>>
     THEN /\ ccPc' = [ccPc EXCEPT ![p] = "returned"]
          /\ UNCHANGED <<ccPoints, ccIds, uuidCount>>
     ELSE LET built == BuildLoop([points |-> <<>>, ids |-> <<>>,
                                  drawn |-> uuidCount], ccArgs[p], 0)
          IN  /\ ccPoints' = [ccPoints EXCEPT ![p] = built.points]
              /\ ccIds' = [ccIds EXCEPT ![p] = built.ids]
              /\ uuidCount' = built.drawn
              /\ ccPc' = [ccPc EXCEPT ![p] = "upserting"]
  /\ UNCHANGED <<ccArgs, ccI>>
  /\ UNCHANGED <<qPoints, seArgs, sePoints, seIds, seI, sePc, seHist, seUpserts, qOpId>>
  /\ UNCHANGED <<ctVars, geVars, qyVars, coVars, fjVars, plVars>>

\* One upsert(wait=True) of caller p that the collection acknowledges.
ConcUpsertOk(p) ==
  /\ ccPc[p] = "upserting" /\ ccI[p] < Len(ccPoints[p])
  /\ LET batch == BatchAt(ccPoints[p], ccI[p], ccArgs[p].batch_size)
     IN  /\ QdrantAccepts(batch)
         /\ qPoints' = UpsertBatch(qPoints, batch)
  /\ qOpId' = qOpId + 1
  /\ ccI' = [ccI EXCEPT ![p] = @ + ccArgs[p].batch_size]
  /\ UNCHANGED <<ccArgs, ccPoints, ccIds, ccPc>>
  /\ UNCHANGED <<uuidCount, seArgs, sePoints, seIds, seI, sePc, seHist, seUpserts>>
  /\ UNCHANGED <<ctVars, geVars, qyVars, coVars, fjVars, plVars>>

\* One upsert of caller p that raises.
ConcUpsertFail(p) ==
  /\ ccPc[p] = "upserting" /\ ccI[p] < Len(ccPoints[p])
  /\ ccPc' = [ccPc EXCEPT ![p] = "raised"]
  /\ UNCHANGED <<ccArgs, ccPoints, ccIds, ccI>>
  /\ UNCHANGED <<ctVars, geVars, seVars, qyVars, coVars, fjVars, plVars>>

\* The upsert loop of caller p is over: return stored_ids.
ConcReturn(p) ==
  /\ ccPc[p] = "upserting" /\ ccI[p] >= Len(ccPoints[p])
  /\ ccPc' = [ccPc EXCEPT ![p] = "returned"]
  /\ UNCHANGED <<ccArgs, ccPoints, ccIds, ccI>>
  /\ UNCHANGED <<ctVars, geVars, seVars, qyVars, coVars, fjVars, plVars>>

IndexIdle ==
  SearchIdle /\ DeleteIdle /\ CtorIdle /\ FindJobsIdle /\ PipelineIdle /\ ConcIdle

(***************************************************************************)
(* Specifications: one per operation under study, the others at rest.      *)
(***************************************************************************)
ChunkInit == ChunkStart /\ EmbedIdle /\ StoreIdle /\ IndexIdle
ChunkNext == ChunkTextRun
ChunkSpec == ChunkInit /\ [][ChunkNext]_vars

EmbedInit == ChunkIdle /\ EmbedStart /\ StoreIdle /\ IndexIdle
EmbedNext == GenBatchOk \/ GenBatchFail \/ GenReturn \/ GenRangeError
EmbedSpec == EmbedInit /\ [][EmbedNext]_vars

\* One store_embeddings call on an empty collection.
StoreInit == ChunkIdle /\ EmbedIdle /\ StoreStart(StoreInputs) /\ IndexIdle
StoreNext == StoreBuild \/ StoreUpsertOk \/ StoreUpsertFail \/ StoreReturn
StoreSpec == StoreInit /\ [][StoreNext]_vars

\* Up to MaxCalls store_embeddings calls, one after the other.
StoreSeqInit == ChunkIdle /\ EmbedIdle /\ StoreStart(SeqInputs) /\ IndexIdle
StoreSeqNext ==
  \/ StoreBuild
  \/ StoreUpsertOk
  \/ StoreUpsertFail
  \/ StoreReturn
  \/ \E args \in SeqInputs : StoreCallAgain(args)
StoreSeqSpec == StoreSeqInit /\ [][StoreSeqNext]_vars

\* One user of a QdrantStorage object: store, search and delete calls one
\* after the other, at most MaxCalls of them store_embeddings calls.
QueryInit ==
  /\ ChunkIdle /\ EmbedIdle /\ StoreStart(QueryStoreInputs)
  /\ SearchIdle /\ DeleteIdle /\ CtorIdle /\ FindJobsIdle /\ PipelineIdle
  /\ ConcIdle
QueryNext ==
  \/ StoreBuild
  \/ StoreUpsertOk
  \/ StoreUpsertFail
  \/ StoreReturn
  \/ \E args \in QueryStoreInputs : QueryStoreCall(args)
  \/ \E args \in SearchInputs : SearchSimilarOk(args)
  \/ SearchSimilarFail
  \/ \E d \in DocIds : DeleteDocumentOk(d)
  \/ \E d \in DocIds : DeleteDocumentFail(d)
QuerySpec == QueryInit /\ [][QueryNext]_vars

\* One store_embeddings call on an empty collection, then searches.
RoundTripInit ==
  /\ ChunkIdle /\ EmbedIdle /\ StoreStart(RoundTripInputs)
  /\ SearchIdle /\ DeleteIdle /\ CtorIdle /\ FindJobsIdle /\ PipelineIdle
  /\ ConcIdle
RoundTripNext ==
  \/ StoreBuild
  \/ StoreUpsertOk
  \/ StoreUpsertFail
  \/ StoreReturn
  \/ \E args \in RoundTripSearches : SearchSimilarOk(args)
  \/ SearchSimilarFail
RoundTripSpec == RoundTripInit /\ [][RoundTripNext]_vars

\* Two store_embeddings calls at the same time.
ConcInit ==
  /\ ChunkIdle /\ EmbedIdle /\ StoreIdle /\ SearchIdle /\ DeleteIdle
  /\ CtorIdle /\ FindJobsIdle /\ PipelineIdle
  /\ ConcStart
ConcNext ==
  \/ \E p \in Callers : ConcBuild(p)
  \/ \E p \in Callers : ConcUpsertOk(p)
  \/ \E p \in Callers : ConcUpsertFail(p)
  \/ \E p \in Callers : ConcReturn(p)
ConcSpec == ConcInit /\ [][ConcNext]_vars

\* NumProcs processes construct a QdrantStorage each, at the same time, and
\* initialize_qdrant may run beside them.
CtorInit ==
  /\ ChunkIdle /\ EmbedIdle /\ StoreIdle /\ SearchIdle /\ DeleteIdle
  /\ CtorStart /\ FindJobsIdle /\ PipelineIdle
  /\ ConcIdle
CtorNext ==
  \/ \E p \in Procs : CtorList(p)
  \/ \E p \in Procs : CtorSkip(p)
  \/ \E p \in Procs : CtorUnknown(p)
  \/ \E p \in Procs : CtorCreate(p)
  \/ InitScriptList
  \/ InitScriptStep
  \/ InitScriptDone
CtorSpec == CtorInit /\ [][CtorNext]_vars

\* One find_similar_jobs call.
FindJobsInit ==
  /\ ChunkIdle /\ EmbedIdle /\ StoreIdle /\ SearchIdle /\ DeleteIdle
  /\ CtorIdle /\ FindJobsStart /\ PipelineIdle
  /\ ConcIdle
FindJobsNext ==
  FjEmbedOk \/ FjEmbedFail \/ FjReturnEmpty \/ FjSearchOk \/ FjSearchFail
FindJobsSpec == FindJobsInit /\ [][FindJobsNext]_vars

\* One process_csv_file call on an empty collection.
PipelineInit ==
  /\ ChunkIdle /\ EmbedIdle /\ StoreIdle /\ SearchIdle /\ DeleteIdle
  /\ CtorIdle /\ FindJobsIdle /\ PipelineStart
  /\ ConcIdle
PipelineNext ==
  \/ PlRowChunk
  \/ PlEmbedBatchOk
  \/ PlEmbedBatchFail
  \/ PlEmbedRaise
  \/ PlEmbedDone
  \/ StoreBuild
  \/ StoreUpsertOk
  \/ StoreUpsertFail
  \/ StoreReturn
  \/ PlStoreReturned
  \/ PlStoreRaised
  \/ PlReturn
PipelineSpec == PipelineInit /\ [][PipelineNext]_vars

ValidParams == ctSize > 0 /\ 0 <= ctOverlap /\ ctOverlap < ctSize

(***************************************************************************)
(* Properties of chunk_text, checked under ChunkSpec.                      *)
(***************************************************************************)
ChunkDone == ctPc # "called"

\* The windows [start_token, end_token) of the returned list.
Covered(t) == \E k \in 1..Len(ctResult) :
                ctResult[k].start_token <= t /\ t < ctResult[k].end_token

\* C1: for T > 0 and valid parameters (chunk_size > 0, 0 <= chunk_overlap <
\* chunk_size) chunk_text returns windows that cover [0, T) with no gap: the
\* first starts at 0, the last ends at T, each starts at or before the end of
\* the one before it, and consecutive windows overlap by exactly
\* chunk_overlap tokens (the final pair is only required not to leave a gap).
C1_ChunkCoverage ==
  (ChunkDone /\ ValidParams /\ ctT > 0) =>
    LET n == Len(ctResult)
    IN  /\ ctPc = "returned"
        /\ n >= 1
        /\ ctResult[1].start_token = 0
        /\ ctResult[n].end_token = ctT
        /\ \A k \in 1..(n - 1) :
             ctResult[k + 1].start_token <= ctResult[k].end_token
        /\ \A k \in 1..(n - 2) :
             ctResult[k].end_token - ctResult[k + 1].start_token = ctOverlap
        /\ \A t \in 0..(ctT - 1) : Covered(t)

\* C1 witness: a valid call that returned at least three windows with a real
\* overlap and a final window shorter than chunk_size.
C1_Witness ==
  /\ ctPc = "returned" /\ ValidParams /\ ctOverlap > 0
  /\ Len(ctResult) >= 3
  /\ ctResult[Len(ctResult)].num_tokens < ctSize

\* C2: every chunk chunk_text returns has 0 <= start_token < end_token <= T
\* and num_tokens = end_token - start_token.
C2_ChunkBounds ==
  ctPc = "returned" =>
    \A k \in 1..Len(ctResult) :
      /\ 0 <= ctResult[k].start_token
      /\ ctResult[k].start_token < ctResult[k].end_token
      /\ ctResult[k].end_token <= ctT
      /\ ctResult[k].num_tokens = ctResult[k].end_token - ctResult[k].start_token

\* The same bounds for the calls with valid parameters only.
ChunkBoundsValidParams == ValidParams => C2_ChunkBounds

\* C3: a call with chunk_size <= 0 or chunk_overlap >= chunk_size ends in an
\* error and never returns a list.
C3_InvalidParamsRejected ==
  (ChunkDone /\ (ctSize <= 0 \/ ctOverlap >= ctSize)) => ctPc = "raised"

\* C4: for valid parameters, T = 0 gives the empty list without error, and
\* 0 < T <= chunk_size gives exactly one chunk, the window [0, T).
C4_ChunkEdgeCases ==
  (ChunkDone /\ ValidParams) =>
    /\ ctPc = "returned"
    /\ (ctT = 0) => (ctResult = <<>>)
    /\ (0 < ctT /\ ctT <= ctSize) =>
         /\ Len(ctResult) = 1
         /\ ctResult[1].start_token = 0
         /\ ctResult[1].end_token = ctT

\* C4 witness: a valid call on a text of exactly chunk_size tokens returned.
C4_Witness ==
  ctPc = "returned" /\ ValidParams /\ ctT = ctSize /\ Len(ctResult) = 1

\* C5: with chunk_size = 800 and chunk_overlap = 100 the number of chunks is
\* 0 for T = 0, 1 for 0 < T <= 800 and ceil((T - 800) / 700) + 1 for T > 800.
C5_DefaultChunkCount ==
  (ChunkDone /\ ctSize = DefaultChunkSize /\ ctOverlap = DefaultChunkOverlap) =>
    /\ ctPc = "returned"
    /\ Len(ctResult) =
         IF ctT = 0 THEN 0
         ELSE IF ctT <= DefaultChunkSize THEN 1
         ELSE CeilDiv(ctT - DefaultChunkSize,
                      DefaultChunkSize - DefaultChunkOverlap) + 1

\* C5 witness: a text of more than 800 + 2 * 700 tokens chunked with the
\* defaults into four chunks.
C5_Witness ==
  /\ ctPc = "returned"
  /\ ctSize = DefaultChunkSize /\ ctOverlap = DefaultChunkOverlap
  /\ ctT > DefaultChunkSize + 2 * (DefaultChunkSize - DefaultChunkOverlap)
  /\ Len(ctResult) = 4

(***************************************************************************)
(* Properties of generate_embeddings, checked under EmbedSpec.             *)
(***************************************************************************)
\* The request (1-based position in geLog) that carried texts[i], i 1-based.
RequestOf(i) == ((i - 1) \div geBatch) + 1
BatchFailed(i) == ~geLog[RequestOf(i)].ok

\* C6: for batch_size >= 1 and every pattern of failing batches the result
\* has len(texts) vectors and the vector at index i is the one produced for
\* texts[i], or the placeholder when the batch of texts[i] failed.
C6_EmbedOrderPreserving ==
  (gePc = "returned" /\ geBatch >= 1) =>
    /\ Len(geAll) = Len(geTexts)
    /\ \A i \in 1..Len(geTexts) :
         geAll[i] = IF BatchFailed(i) THEN Vec(ExpectedDim, 0)
                    ELSE Vec(ExpectedDim, geTexts[i])

\* C6 witness: a returned call over several batches, one failed and one
\* answered, with distinct texts inside an answered batch.
C6_Witness ==
  /\ gePc = "returned" /\ Len(geLog) >= 2
  /\ \E a, b \in 1..Len(geLog) :
       /\ ~geLog[a].ok
       /\ geLog[b].ok /\ Len(geLog[b].texts) >= 2
       /\ geLog[b].texts[1] # geLog[b].texts[2]

HasVector(chunk) == "embedding" \in DOMAIN chunk
EmbeddedChunks == SelectSeq(seArgs.chunks, HasVector)
RECURSIVE PositionsFrom(_)
PositionsFrom(i) ==
  IF i >= Len(seArgs.chunks) THEN <<>>
  ELSE (IF HasVector(seArgs.chunks[i + 1]) THEN <<i>> ELSE <<>>)
       \o PositionsFrom(i + 1)
EmbeddedPositions == PositionsFrom(0)

StoreEnded == sePc \in {"returned", "raised"}

\* C8: a store_embeddings call that returns gives one point id per chunk
\* that has an embedding, in chunk order (the k-th id is the id of the stored
\* point holding the k-th embedded chunk's vector) and nothing for the
\* others: a chunk without a vector is skipped, stores no point and does not
\* fail the call.
C8_StoredIdsPerEmbeddedChunk ==
  /\ sePc = "returned" =>
       /\ Len(seIds) = Len(EmbeddedChunks)
       /\ \A j, k \in 1..Len(seIds) : seIds[j] = seIds[k] => j = k
       /\ \A k \in 1..Len(seIds) :
            \E p \in qPoints :
              p.id = seIds[k] /\ p.vector = EmbeddedChunks[k].embedding
       /\ Cardinality(qPoints) = Len(EmbeddedChunks)
  /\ (StoreEnded /\ Len(EmbeddedChunks) = 0) =>
       sePc = "returned" /\ seIds = <<>> /\ qPoints = {}

\* C8 witness: a returned call whose list mixes a chunk without a vector with
\* two chunks that have different vectors.
C8_Witness ==
  /\ sePc = "returned"
  /\ Len(seIds) = 2
  /\ Len(seArgs.chunks) = 3
  /\ EmbeddedChunks[1].embedding # EmbeddedChunks[2].embedding
  /\ Cardinality(qPoints) = 2

\* C9: in the payload of every point store_embeddings builds, document_id is
\* the document_id argument, text is the chunk's text and chunk_index is the
\* chunk's position, whatever the metadata holds.
C9_IdentityFieldsFixed ==
  sePc # "called" =>
    \A k \in 1..Len(sePoints) :
      /\ sePoints[k].payload.document_id = seArgs.document_id
      /\ sePoints[k].payload.text = DictGet(EmbeddedChunks[k], "text", "")
      /\ sePoints[k].payload.chunk_index = ToString(EmbeddedPositions[k])

\* The fixed fields do hold the call's own values when the metadata names
\* none of them.
IdentityFieldsWithoutOverride ==
  (seArgs.metadata # Some(MetaIdentity)) => C9_IdentityFieldsFixed

\* The ids returned by all the calls that ended, oldest first.
RECURSIVE IdsOf(_)
IdsOf(hist) == IF hist = <<>> THEN <<>> ELSE Head(hist).ids \o IdsOf(Tail(hist))

PointsOfDocument(d) == { p \in qPoints : p.payload.document_id = d }

\* C10: ids are fresh, so storing is additive: no two stored points share an
\* id, no id is returned twice, and two returned calls with the same
\* document_id and the same n embedded chunks leave 2n points carrying that
\* document_id.
C10_FreshIdsAdditive ==
  /\ \A p, q \in qPoints : p.id = q.id => p = q
  /\ LET ids == IdsOf(seHist)
     IN  \A j, k \in 1..Len(ids) : ids[j] = ids[k] => j = k
  /\ ( /\ Len(seHist) = 2
       /\ seHist[1].ok /\ seHist[2].ok
       /\ seHist[1].document_id = seHist[2].document_id
       /\ seHist[1].n = seHist[2].n )
     => Cardinality(PointsOfDocument(seHist[1].document_id)) = 2 * seHist[1].n

\* What does hold of the ids: the statement of C10 when no call passes
\* metadata, and in general that no id is returned twice and the collection
\* holds at least one point per id returned by a call that returned.
RECURSIVE StoredCount(_)
StoredCount(hist) ==
  IF hist = <<>> THEN 0
  ELSE (IF Head(hist).ok THEN Len(Head(hist).ids) ELSE 0) + StoredCount(Tail(hist))
FreshIdsAccumulate ==
  /\ (\A k \in 1..Len(seHist) : seHist[k].metadata = None) => C10_FreshIdsAdditive
  /\ LET ids == IdsOf(seHist)
     IN  \A j, k \in 1..Len(ids) : ids[j] = ids[k] => j = k
  /\ StoreEnded => Cardinality(qPoints) >= StoredCount(seHist)

(***************************************************************************)
(* search_similar and delete_document (QuerySpec)                          *)
(***************************************************************************)
SearchReturned == ssPc = "returned"
DeleteReturned == ddPc = "returned"

\* C11: search_similar returns at most limit results, ordered by descending
\* score, and, when a score_threshold is given, none with a score below it.
C11_SearchLimitOrderThreshold ==
  SearchReturned =>
    /\ Len(ssResult) <= ssArgs.limit
    /\ \A j, k \in 1..Len(ssResult) :
         j < k => ssResult[j].score >= ssResult[k].score
    /\ ssArgs.score_threshold # None =>
         \A k \in 1..Len(ssResult) :
           ssResult[k].score >= ssArgs.score_threshold[1]

\* A search that returned limit results of different scores, with a
\* threshold, while the collection held more points above the threshold than
\* limit and a point below it.
C11_Witness ==
  /\ SearchReturned
  /\ ssArgs.score_threshold # None
  /\ Len(ssResult) = ssArgs.limit
  /\ ssArgs.limit >= 2
  /\ ssResult[1].score > ssResult[2].score
  /\ Cardinality(Candidates(qPoints, SearchRequest(ssArgs))) > ssArgs.limit
  /\ \E p \in qPoints :
       Score(ssArgs.query_embedding, p.vector) < ssArgs.score_threshold[1]

\* The value a payload has for each key of a filter.
Satisfies(payload, conditions) ==
  \A k \in DOMAIN conditions :
    k \in DOMAIN payload /\ payload[k] = conditions[k]

\* C12: a filter is the conjunction of its equality conditions: every result
\* of a filtered search has the given value for every listed key (so a search
\* with filter {user_id: A} returns no point whose user_id is B), and a
\* search that returned fewer than limit results returned every stored point
\* that satisfies the filter and the threshold.
C12_FilterIsConjunction ==
  (SearchReturned /\ TruthyDict(ssArgs.filter_conditions)) =>
    /\ \A k \in 1..Len(ssResult) :
         Satisfies(ssResult[k].payload, ssArgs.filter_conditions[1])
    /\ Len(ssResult) < ssArgs.limit =>
         \A p \in qPoints :
           ( /\ Satisfies(p.payload, ssArgs.filter_conditions[1])
             /\ ssArgs.score_threshold # None =>
                  Score(ssArgs.query_embedding, p.vector)
                    >= ssArgs.score_threshold[1] )
           => \E k \in 1..Len(ssResult) : ssResult[k].id = p.id

\* A search on user_id that returned a point while the collection held a point
\* of another user that passes every other condition of the request.
C12_Witness ==
  /\ SearchReturned
  /\ TruthyDict(ssArgs.filter_conditions)
  /\ "user_id" \in DOMAIN ssArgs.filter_conditions[1]
  /\ Len(ssResult) >= 1
  /\ \E p \in qPoints :
       /\ p.payload.user_id # ssArgs.filter_conditions[1].user_id
       /\ ssArgs.score_threshold # None =>
            Score(ssArgs.query_embedding, p.vector) >= ssArgs.score_threshold[1]

\* C13: when delete_document(d) has returned no stored point has payload
\* document_id equal to d, and the points of every other document_id are
\* the ones stored before the call, unchanged.
C13_DeleteCompleteAndFramed ==
  DeleteReturned =>
    /\ \A p \in qPoints : p.payload.document_id # ddArg
    /\ qPoints = { p \in ddBefore : p.payload.document_id # ddArg }

\* A delete that returned after removing points while the collection also
\* held points of another document_id.
C13_Witness ==
  /\ DeleteReturned
  /\ \E p \in ddBefore : p.payload.document_id = ddArg
  /\ \E p \in ddBefore : p.payload.document_id # ddArg
  /\ qPoints # {}

\* C14: delete_document returns the number of points it removed, so it
\* returns 0 for a document_id that has no stored points (and a second call
\* right after a first returns 0).
C14_DeleteReturnsCount ==
  DeleteReturned => ddResult = Cardinality(ddBefore \ qPoints)

\* What delete_document does return: the collection's operation number,
\* which counts the upserts and deletes acknowledged before this delete.
DeleteReturnsOperationNumber ==
  DeleteReturned => ddResult + 1 = qOpId

(***************************************************************************)
(* QdrantStorage construction (CtorSpec)                                   *)
(***************************************************************************)
\* C15: creation races are not fatal: processes that construct
\* QdrantStorage for a configured collection at the same time all complete,
\* whatever the interleaving of their list and create steps; no such
\* constructor ends in an error.
C15_CreationRaceNotFatal ==
  \A p \in Procs : coName[p] \in ConfiguredNames => coPc[p] # "raised"

\* What does hold: a constructor for a configured name raises only after its
\* own create request met a collection that another created meanwhile.
CtorRaisesOnlyOnLostRace ==
  \A p \in Procs :
    (coName[p] \in ConfiguredNames /\ coPc[p] = "raised") =>
      /\ coName[p] \notin coSeen[p]
      /\ qColl[coName[p]] # None
      /\ \E r \in coCreates : r.by = p

\* C16: after QdrantStorage(name) returned for a configured name the
\* collection exists with the configured vector size and cosine distance; a
\* constructor that found its collection listed sends no create request; and
\* no step changes a collection that exists, nor its points.
CollectionAsConfigured ==
  \A p \in Procs :
    (coPc[p] = "returned" /\ coName[p] \in ConfiguredNames) =>
      /\ qColl[coName[p]] # None
      /\ qColl[coName[p]][1].size = CollectionDim
      /\ qColl[coName[p]][1].distance = "Cosine"
NoCreateForListed ==
  \A r \in coCreates : r.name \notin coSeen[r.by]
ExistingUntouched ==
  \A n \in CollNames : qColl[n] # None => qColl'[n] = qColl[n]
C16_LazyCreation ==
  /\ [](CollectionAsConfigured /\ NoCreateForListed)
  /\ [][ExistingUntouched]_vars

\* One constructor returned after creating its collection, and another
\* returned for a collection that it found listed and that holds points.
C16_Witness ==
  \E p, q \in Procs :
    /\ coPc[p] = "returned" /\ coPc[q] = "returned"
    /\ \E r \in coCreates : r.by = p
    /\ coName[q] \in coSeen[q]
    /\ qColl[coName[q]][1].points > 0

(***************************************************************************)
(* Vector dimension on upsert (StoreSpec)                                  *)
(***************************************************************************)
\* The built points whose vector has another dimension than the collection.
Mismatched(points) ==
  { k \in 1..Len(points) : points[k].vector.dim # CollectionDim }

\* C17: a store_embeddings call with a point whose vector dimension differs
\* from the collection's never returns (the upsert of that point's batch is
\* refused and the error leaves the call); no point with the id of such a
\* point is stored; and every stored vector is, unaltered, the embedding of
\* a chunk of the call and has the collection's dimension.
C17_DimensionMismatchRejected ==
  /\ Mismatched(sePoints) # {} => sePc # "returned"
  /\ \A k \in Mismatched(sePoints) :
       \A p \in qPoints : p.id # sePoints[k].id
  /\ \A p \in qPoints :
       /\ p.vector.dim = CollectionDim
       /\ \E k \in 1..Len(seArgs.chunks) :
            HasVector(seArgs.chunks[k]) /\ seArgs.chunks[k].embedding = p.vector

\* A call that raised at a batch holding a vector of another dimension,
\* after an earlier batch was stored.
C17_Witness ==
  /\ sePc = "raised"
  /\ ~QdrantAccepts(StoreBatch)
  /\ qPoints # {}
  /\ \A k \in Mismatched(sePoints) : \A p \in qPoints : p.id # sePoints[k].id

(***************************************************************************)
(* find_similar_jobs (FindJobsSpec)                                        *)
(***************************************************************************)
\* C18: when the query embedding fails, find_similar_jobs fails: it never
\* returns a list, so that the failure cannot be taken for a search that
\* succeeded and found nothing.
C18_EmbeddingFailureIsAnError ==
  fjApiFailed => fjPc # "returned"

\* What find_similar_jobs does on a failed embedding: it returns the empty
\* list, as a search that found nothing does.
EmbeddingFailureReturnsEmpty ==
  (fjApiFailed /\ fjPc \notin {"called", "embedded"}) =>
    fjPc = "returned" /\ fjResult = <<>>

\* C19: retrieval never substitutes a zero vector: after a failed query
\* embedding no search request is sent, and every request sent carries the
\* vector the embedding call answered.
C19_NoZeroVectorQuery ==
  /\ fjApiFailed => fjRequests = <<>>
  /\ \A k \in 1..Len(fjRequests) :
       /\ fjApiVec # None
       /\ fjRequests[k].query_vector = fjApiVec[1]
       /\ fjRequests[k].query_vector.of # 0

\* A search was sent with the answered vector and found jobs.
C19_Witness ==
  /\ fjPc = "returned"
  /\ Len(fjRequests) = 1
  /\ fjRequests[1].query_vector = Vec(CollectionDim, fjArgs.cv_text)
  /\ Len(fjResult) >= 1

(***************************************************************************)
(* The stages of a row in process_csv_file (PipelineSpec)                  *)
(***************************************************************************)
\* The stages that ended for a row, oldest first.
OfRow(row) == LET Is(e) == e.row = row IN SelectSeq(plTrace, Is)
StageOrder == <<"chunk", "embed", "store">>
StageFailed(e) == ~e.ok
Failures == SelectSeq(plTrace, StageFailed)

\* The stages of every row end in the order chunk, embed, store, and none
\* ends after one that failed.
StagesInOrder ==
  \A row \in 1..plRow :
    LET ev == OfRow(row)
    IN  /\ Len(ev) <= Len(StageOrder)
        /\ \A k \in 1..Len(ev) :
             /\ ev[k].stage = StageOrder[k]
             /\ k < Len(ev) => ev[k].ok

\* store_embeddings works on a row only when every chunk of the row has been
\* given an embedding, and what is stored are the vectors so given.
UpsertAfterEmbedding ==
  /\ sePc \in {"called", "upserting"} =>
       /\ plPc = "storing"
       /\ Len(seArgs.chunks) = Len(plChunks)
       /\ Len(plEmb) = Len(plChunks)
       /\ \A k \in 1..Len(plChunks) :
            HasVector(seArgs.chunks[k]) /\ seArgs.chunks[k].embedding = plEmb[k]
  /\ Cardinality(qPoints) > 0 =>
       \E e \in 1..Len(plTrace) : plTrace[e].stage = "embed" /\ plTrace[e].ok

\* Every failure is reported with the stage that failed.
ReportsNameStage ==
  /\ Len(plReports) = Len(Failures)
  /\ \A k \in 1..Len(plReports) :
       /\ "stage" \in DOMAIN plReports[k]
       /\ plReports[k].stage = Failures[k].stage

\* C20: per document the stages run only in the order Chunked, Embedded,
\* Stored; no upsert is issued for a document before all its chunks are
\* chunked and have an embedding; after a stage failed no later stage runs for
\* the document; and the failure is reported with the stage that failed.
C20_StagesInOrderAndReported ==
  StagesInOrder /\ UpsertAfterEmbedding /\ ReportsNameStage

\* What does hold: the order of the stages, and one printed line per failure
\* that carries a row number and the error's text only.
StagesInOrderReportedWithoutStage ==
  /\ StagesInOrder
  /\ UpsertAfterEmbedding
  /\ Len(plReports) = Len(Failures)
  /\ \A k \in 1..Len(plReports) : DOMAIN plReports[k] = {"row", "message"}

\* A file whose first row was stored and whose second row failed in storing.
StoredThenFailed ==
  /\ plPc = "returned"
  /\ \E j, k \in 1..Len(plTrace) :
       /\ plTrace[j].stage = "store" /\ plTrace[j].ok
       /\ plTrace[k].stage = "store" /\ ~plTrace[k].ok

(***************************************************************************)
(* Degradation on an embedding failure (PipelineSpec)                      *)
(***************************************************************************)
\* The positions of the chunks whose embedding is the zero placeholder.
ZeroEmbedded == { k \in 1..Len(plEmb) : plEmb[k].of = 0 }

\* The document of DegradeChunks chunks was indexed with embedding batch
\* size 2 and exactly one of its batches failed.
OneBatchFailed ==
  /\ plPc = "returned"
  /\ plArgs = DegradeArgs
  /\ Len(plChunks) = DegradeChunks
  /\ Len(plEmb) = DegradeChunks
  /\ Cardinality(ZeroEmbedded) = 2

\* A point holds chunk k of the row with vector v.
StoredAs(k, v) ==
  \E p \in qPoints : p.vector = v /\ p.payload.chunk_index = ToString(k - 1)

\* C21: indexing a document of 10 chunks with embedding batch size 2 where
\* exactly one batch failed is not aborted: each chunk of the successful
\* batches is stored as a point with its own vector, and each chunk of the
\* failed batch is stored as a zero vector or the failure is reported.
C21_DegradeKeepsOtherChunks ==
  OneBatchFailed =>
    \A k \in 1..DegradeChunks :
      IF k \in ZeroEmbedded
      THEN StoredAs(k, plEmb[k]) \/ plReports # <<>>
      ELSE StoredAs(k, plEmb[k])

\* What happens instead: the call stores nothing of that document, because
\* the placeholders have ExpectedDim entries and the collection CollectionDim.
DegradedDocumentNotStored ==
  OneBatchFailed => qPoints = {} /\ Len(plReports) = 1

(***************************************************************************)
(* C22: store_embeddings then search_similar with a stored chunk's vector. *)
(***************************************************************************)
\* The round trip is over: the document was stored and a search with
\* score_threshold 0.99 returned.
RoundTripDone ==
  /\ sePc = "returned" /\ ssPc = "returned"
  /\ Len(seArgs.chunks) = RoundTripChunks
  /\ NumEmbedded(seArgs.chunks) = RoundTripChunks
  /\ ssArgs.score_threshold = Some(99)

\* The chunks (1-based) whose vector the search was called with.
QueriedChunks ==
  { k \in 1..Len(seArgs.chunks) : seArgs.chunks[k].embedding = ssArgs.query_embedding }

\* The result list has the id store_embeddings returned for chunk k, with the
\* payload store_embeddings built for it.
ReturnsChunk(k) ==
  \E j \in 1..Len(ssResult) :
    /\ ssResult[j].id = seIds[k]
    /\ ssResult[j].payload = sePoints[k].payload
    /\ ssResult[j].payload.created_at = Now
    /\ seArgs.metadata = None =>
         /\ ssResult[j].payload.text = seArgs.chunks[k].text
         /\ ssResult[j].payload.chunk_index = ToString(k - 1)

\* The stored points that score at least 0.99 against the query.
NearQuery ==
  { p \in qPoints : Score(ssArgs.query_embedding, p.vector) >= 99 }

\* C22 (as stated): after store_embeddings stored a document of 3 embedded
\* chunks, search_similar with the vector of one of the chunks,
\* score_threshold 0.99 and any limit of at least 1 returns a list that holds
\* the point id returned for that chunk, with that chunk's payload.
C22_RoundTripAnyLimit ==
  RoundTripDone => \A k \in QueriedChunks : ReturnsChunk(k)

\* C22 (amended): the same, for a chunk whose vector is not the all-zero
\* vector and a limit that is at least the number of stored points scoring
\* 0.99 or more against the query (1 when no other point has that vector).
C22_RoundTrip ==
  RoundTripDone =>
    \A k \in QueriedChunks :
      (ssArgs.query_embedding.of # 0 /\ ssArgs.limit >= Cardinality(NearQuery))
        => ReturnsChunk(k)

\* A round trip with two chunks of the same vector, both returned.
C22_Witness ==
  /\ RoundTripDone
  /\ Cardinality(QueriedChunks) = 2
  /\ ssArgs.query_embedding.of # 0
  /\ ssArgs.limit = 2
  /\ \A k \in QueriedChunks : ReturnsChunk(k)

(***************************************************************************)
(* C23: a failed upsert ends the upsert loop.                              *)
(***************************************************************************)
\* The positions in the list points (1-based) of the k-th batch.
BatchPositions(k) ==
  { j \in 1..Len(sePoints) :
      (k - 1) * seArgs.batch_size < j /\ j <= k * seArgs.batch_size }

Holds(j) == \E p \in qPoints : p.id = sePoints[j].id

\* C23: when the upsert of batch k raises, no request follows it, and the
\* collection holds every point of the batches before k and no point of a
\* batch after k.
C23_FailureStopsBatches ==
  \A k \in 1..Len(seUpserts) :
    ~seUpserts[k].ok =>
      /\ k = Len(seUpserts)
      /\ sePc = "raised"
      /\ \A b \in 1..Len(sePoints) : \A j \in BatchPositions(b) :
           /\ b < k => sePoints[j] \in qPoints
           /\ b > k => ~Holds(j)

\* The second of three batches failed: one point is stored, one never sent.
C23_Witness ==
  /\ sePc = "raised"
  /\ Len(sePoints) = 3 /\ seArgs.batch_size = 1
  /\ Len(seUpserts) = 2 /\ seUpserts[1].ok /\ ~seUpserts[2].ok
  /\ qPoints = {sePoints[1]}

(***************************************************************************)
(* C24: what the caller learns of a failed store_embeddings call.          *)
(***************************************************************************)
\* The points of the current call that the collection holds.
WrittenByCall == { j \in 1..Len(sePoints) : Holds(j) }

\* The outcome of the call that ended last, as its caller has it.
LastOutcome == seHist[Len(seHist)]

\* C24: when the upsert of batch k raises, the failure the caller gets states
\* how many points (those of the batches before k) were written.
C24_FailureReportsPrefix ==
  sePc = "raised" =>
    /\ "written" \in DOMAIN LastOutcome
    /\ LastOutcome.written = Cardinality(WrittenByCall)

\* What does hold: the caller gets the index client's exception and no point
\* id, whether or not earlier batches were written.
FailureCarriesNoCount ==
  sePc = "raised" =>
    /\ ~LastOutcome.ok /\ LastOutcome.ids = <<>>
    /\ DOMAIN LastOutcome = {"document_id", "metadata", "n", "ids", "ok"}

\* A call that raised after it had written one of its points.
RaisedAfterWrite == sePc = "raised" /\ Cardinality(WrittenByCall) = 1

(***************************************************************************)
(* C25: the upsert requests of one store_embeddings call.                  *)
(***************************************************************************)
\* The points of the requests of a log, in the order sent.
RECURSIVE SentPoints(_)
SentPoints(log) ==
  IF log = <<>> THEN <<>>
  ELSE Head(log).request.points \o SentPoints(Tail(log))

\* C25: the requests of a call carry consecutive slices of the list points,
\* of batch_size points each (the last may be shorter), in chunk order; each
\* is sent with wait=True and only after the one before was acknowledged, by
\* when its points are in the collection; no point is sent twice, and a call
\* that returns has sent every point.
C25_BatchesInOrderOnce ==
  LET sent == SentPoints(seUpserts)
      n    == Len(seUpserts)
  IN  /\ Len(sent) <= Len(sePoints)
      /\ sent = SubSeq(sePoints, 1, Len(sent))
      /\ \A i, j \in 1..Len(sent) : i < j => sent[i].id # sent[j].id
      /\ \A j \in 1..Len(sePoints) : sePoints[j].id = seIds[j]
      /\ \A k \in 1..n :
           LET r == seUpserts[k].request
           IN  /\ r.wait
               /\ 1 <= Len(r.points) /\ Len(r.points) <= seArgs.batch_size
               /\ k < n => Len(r.points) = seArgs.batch_size /\ seUpserts[k].ok
               /\ seUpserts[k].ok =>
                    \A j \in 1..Len(r.points) : r.points[j] \in qPoints
      /\ sePc = "returned" => sent = sePoints
      /\ sePc = "raised" => ~seUpserts[n].ok

\* Three points sent in two requests, of two points and of one.
C25_Witness ==
  /\ sePc = "returned" /\ Len(sePoints) = 3
  /\ seArgs.batch_size = 2
  /\ Len(seUpserts) = 2
  /\ Len(seUpserts[1].request.points) = 2
  /\ Len(seUpserts[2].request.points) = 1

\* Three points sent in one request under the default batch size.
DefaultBatchOneRequest ==
  /\ sePc = "returned" /\ Len(sePoints) = 3
  /\ seArgs.batch_size = StoreDefaultBatch
  /\ Len(seUpserts) = 1

(***************************************************************************)
(* C26: the embed_content requests of one generate_embeddings call.        *)
(***************************************************************************)
\* The texts of the requests of a log, in the order sent.
RECURSIVE SentTexts(_)
SentTexts(log) ==
  IF log = <<>> THEN <<>> ELSE Head(log).texts \o SentTexts(Tail(log))

\* C26: the requests carry consecutive slices of texts, of batch_size texts
\* each (the last may be shorter), in input order; a call that returns (with
\* batch_size >= 1) has sent every text in exactly one request, one request
\* per slice whether it failed or not.
C26_RequestsInOrderOnce ==
  LET sent == SentTexts(geLog)
      n    == Len(geLog)
  IN  /\ Len(sent) <= Len(geTexts)
      /\ sent = SubSeq(geTexts, 1, Len(sent))
      /\ \A k \in 1..n :
           /\ 1 <= Len(geLog[k].texts) /\ Len(geLog[k].texts) <= geBatch
           /\ k < n => Len(geLog[k].texts) = geBatch
           /\ geLog[k].texts =
                SubSeq(geTexts, (k - 1) * geBatch + 1,
                       Min(k * geBatch, Len(geTexts)))
      /\ (gePc = "returned" /\ geBatch >= 1) =>
           /\ sent = geTexts
           /\ n = CeilDiv(Len(geTexts), geBatch)

\* Three texts sent in two requests of which the first failed and was not
\* sent again.
C26_Witness ==
  /\ gePc = "returned" /\ geBatch = 2 /\ Len(geTexts) = 3
  /\ Len(geLog) = 2
  /\ ~geLog[1].ok /\ geLog[2].ok
  /\ geLog[1].texts = SubSeq(geTexts, 1, 2)
  /\ geLog[2].texts = SubSeq(geTexts, 3, 3)

(***************************************************************************)
(* C27: two store_embeddings calls with distinct document_ids at once.     *)
(***************************************************************************)
BothReturned == \A p \in Callers : ccPc[p] = "returned"

\* The points caller p built, and their ids.
BuiltBy(p) == { ccPoints[p][j] : j \in 1..Len(ccPoints[p]) }
BuiltIds(p) == { ccPoints[p][j].id : j \in 1..Len(ccPoints[p]) }

\* The collection holds exactly the points of both calls, and the calls
\* share no point id.
NoCollision ==
  /\ BothReturned => qPoints = BuiltBy(1) \cup BuiltBy(2)
  /\ BuiltIds(1) \cap BuiltIds(2) = {}
  /\ \A p \in Callers :
       /\ Cardinality(BuiltIds(p)) = Len(ccPoints[p])
       /\ ccPc[p] = "returned" => Len(ccIds[p]) = Len(ccArgs[p].chunks)

\* Every stored point carries the document_id of the call that created it.
OwnDocumentId ==
  \A p \in Callers : \A q \in qPoints :
    q.id \in BuiltIds(p) => q.payload.document_id = ccArgs[p].document_id

\* C27: for two store_embeddings calls with distinct document_ids whose batch
\* upserts interleave in any way on one collection, the final collection
\* holds exactly the points of both calls, no point id is shared, and every
\* point's payload document_id is that of the call that created it.
C27_ConcurrentCallsNeverCollide == NoCollision /\ OwnDocumentId

\* What does hold: no collision of points or ids; the document_id is the
\* call's unless the call's metadata has a document_id key.
ConcurrentCallsCollideOnlyByMetadata ==
  /\ NoCollision
  /\ \A p \in Callers : \A q \in qPoints :
       (q.id \in BuiltIds(p) /\ ccArgs[p].metadata = None)
         => q.payload.document_id = ccArgs[p].document_id

\* Both calls returned after their upserts alternated.
InterleavedCalls ==
  /\ BothReturned
  /\ \A p \in Callers : Len(ccPoints[p]) = 2
  /\ Cardinality(qPoints) = 4

(***************************************************************************)
(* C28: the dimension of the embeddings and the collection's size.         *)
(***************************************************************************)
\* C28: every vector generate_embeddings returns to the pipeline, the
\* placeholder of a failed batch included, has the dimension the collection
\* was created with.
C28_EmbeddingDimIsCollectionSize ==
  \A k \in 1..Len(plEmb) : plEmb[k].dim = CollectionDim

\* What does hold: a placeholder has ExpectedDim entries whatever the
\* collection's size, and a row with such a vector stores nothing.
PlaceholderDimIsFixed ==
  /\ \A k \in 1..Len(plEmb) : plEmb[k].of = 0 => plEmb[k].dim = ExpectedDim
  /\ ExpectedDim # CollectionDim
  /\ (plPc = "storing" /\ \E k \in 1..Len(plEmb) : plEmb[k].dim # CollectionDim)
       => \A q \in qPoints : q.payload.document_id # seArgs.document_id

\* A row whose vectors the API gave with the collection's size, but for one
\* failed batch.
PlaceholderAmongApiVectors ==
  /\ plPc = "storing" /\ apiDim = CollectionDim
  /\ \E j, k \in 1..Len(plEmb) : plEmb[j].of = 0 /\ plEmb[k].of # 0

(***************************************************************************)
(* C29: the user_id of the payload.                                        *)
(***************************************************************************)
\* The metadata of the call has a user_id key.
MetadataHasUser ==
  seArgs.metadata # None /\ "user_id" \in DOMAIN seArgs.metadata[1]

\* C29: with a non-empty user_id argument every point built has that user_id
\* in its payload, whatever the metadata holds; with user_id None or "" the
\* payload has a user_id only if the metadata supplies one (and then that one).
C29_UserIdArgumentWins ==
  \A j \in 1..Len(sePoints) :
    LET payload == sePoints[j].payload
    IN  IF seArgs.user_id # None /\ seArgs.user_id[1] # ""
        THEN "user_id" \in DOMAIN payload /\ payload.user_id = seArgs.user_id[1]
        ELSE /\ "user_id" \in DOMAIN payload <=> MetadataHasUser
             /\ MetadataHasUser => payload.user_id = seArgs.metadata[1].user_id

\* A point built from a user_id argument and a metadata with another user_id.
C29_Witness ==
  /\ Len(sePoints) >= 1
  /\ seArgs.user_id = Some("u1") /\ MetadataHasUser
  /\ seArgs.metadata[1].user_id # "u1"
  /\ sePoints[1].payload.user_id = "u1"
  /\ sePoints[1] \in qPoints

(***************************************************************************)
(* C30: the summary process_csv_file returns and the collection.           *)
(***************************************************************************)
Succeeded == plPc = "returned" /\ plResult # <<>> /\ plResult[1].success

\* The documents (one per row stored) that have a point in the collection.
RowsWithPoints == { q.payload.document_id : q \in qPoints }

\* C30: when process_csv_file returns success, total_chunks is the number of
\* points the run wrote to the collection and processed_rows the number of
\* rows that have a point in it, whatever failed on the way.
C30_SummaryCountsWhatWasWritten ==
  Succeeded =>
    /\ plResult[1].total_chunks = Cardinality(qPoints)
    /\ plResult[1].processed_rows = Cardinality(RowsWithPoints)

\* A store_embeddings call of the run raised after an upsert of its own.
PartialWrite ==
  \E k \in 1..Len(seHist) : ~seHist[k].ok /\ seHist[k].n > StoreDefaultBatch

\* What does hold: the summary counts the rows whose store_embeddings call
\* returned, and at most the points stored; it counts them all unless a call
\* raised after its first upsert.
SummaryCountsReturnedCalls ==
  Succeeded =>
    /\ plResult[1].processed_rows =
         Cardinality({ k \in 1..Len(seHist) : seHist[k].ok })
    /\ plResult[1].total_chunks <= Cardinality(qPoints)
    /\ ~PartialWrite => C30_SummaryCountsWhatWasWritten

\* A run that returned success with no row counted and a first batch stored.
PartialRowUncounted ==
  /\ Succeeded
  /\ plResult[1].processed_rows = 0 /\ plResult[1].total_chunks = 0
  /\ Cardinality(qPoints) = StoreDefaultBatch
====
